---- MODULE Spec2Model ----
(***************************************************************************)
(* A model of the Wake-to-Masm compiler: the lexer (lexer.py), the include *)
(* resolver (fileloader.py), the recursive-descent parser (parser.py), the *)
(* code generator (codegen.py) and the top-level compile call              *)
(* (compiler.py, compile_wake_to_masm).                                    *)
(*                                                                         *)
(* Text is a sequence of one-character strings, so that lexemes, quote     *)
(* stripping and the generated lines are computed character by character.  *)
(* A file is a sequence of lines; load_file joins them with a newline.     *)
(***************************************************************************)
EXTENDS Integers, Sequences, FiniteSets, TLC

(***************************************************************************)
(* Characters and text helpers                                             *)
(***************************************************************************)

\* str.isspace() over the ASCII characters a source file holds
Whitespace == {" ", "\t", "\n", "\r"}

\* str.isdigit() over ASCII
Digits == {"0", "1", "2", "3", "4", "5", "6", "7", "8", "9"}

\* str.isalpha() over ASCII
Letters ==
    {"a", "b", "c", "d", "e", "f", "g", "h", "i", "j", "k", "l", "m",
     "n", "o", "p", "q", "r", "s", "t", "u", "v", "w", "x", "y", "z",
     "A", "B", "C", "D", "E", "F", "G", "H", "I", "J", "K", "L", "M",
     "N", "O", "P", "Q", "R", "S", "T", "U", "V", "W", "X", "Y", "Z"}

\* the characters an identifier starts with: char.isalpha() or char == '_'
IdentStart == Letters \cup {"_"}

\* the characters an identifier goes on with: isalnum() or '_'
IdentPart == Letters \cup Digits \cup {"_"}

Quote == "\""

Backslash == "\\"

\* the lexemes of the two include directives and of the function keyword
KwInclude == <<"#", "i", "n", "c", "l", "u", "d", "e">>

KwMInclude == <<"#", "M", "_", "i", "n", "c", "l", "u", "d", "e">>

KwVoid == <<"v", "o", "i", "d">>

\* the language's file extension
WakeExt == <<".", "w", "a", "k", "e">>

\* source[position:].startswith(prefix), positions counted from 1
StartsWith(source, position, prefix) ==
    /\ position + Len(prefix) - 1 <= Len(source)
    /\ SubSeq(source, position, position + Len(prefix) - 1) = prefix

\* s.endswith(suffix)
EndsWith(s, suffix) ==
    /\ Len(suffix) <= Len(s)
    /\ SubSeq(s, Len(s) - Len(suffix) + 1, Len(s)) = suffix

\* str.lower() on ASCII text
LowerChar(c) ==
    CASE c = "A" -> "a" [] c = "B" -> "b" [] c = "C" -> "c" [] c = "D" -> "d"
      [] c = "E" -> "e" [] c = "F" -> "f" [] c = "G" -> "g" [] c = "H" -> "h"
      [] c = "I" -> "i" [] c = "J" -> "j" [] c = "K" -> "k" [] c = "L" -> "l"
      [] c = "M" -> "m" [] c = "N" -> "n" [] c = "O" -> "o" [] c = "P" -> "p"
      [] c = "Q" -> "q" [] c = "R" -> "r" [] c = "S" -> "s" [] c = "T" -> "t"
      [] c = "U" -> "u" [] c = "V" -> "v" [] c = "W" -> "w" [] c = "X" -> "x"
      [] c = "Y" -> "y" [] c = "Z" -> "z" [] OTHER -> c

Lower(s) == [k \in 1..Len(s) |-> LowerChar(s[k])]

\* str.strip('"'): every leading and every trailing quote is removed
RECURSIVE StripQuotes(_)
StripQuotes(s) ==
    IF s = <<>> THEN s
    ELSE IF Head(s) = Quote THEN StripQuotes(Tail(s))
    ELSE IF s[Len(s)] = Quote THEN StripQuotes(SubSeq(s, 1, Len(s) - 1))
    ELSE s

\* '\n'.join(lines)
RECURSIVE JoinLines(_)
JoinLines(lines) ==
    IF lines = <<>> THEN <<>>
    ELSE IF Len(lines) = 1 THEN lines[1]
    ELSE lines[1] \o <<"\n">> \o JoinLines(Tail(lines))

\* the concatenation of a sequence of sequences
RECURSIVE Flatten(_)
Flatten(seqs) ==
    IF seqs = <<>> THEN <<>> ELSE Head(seqs) \o Flatten(Tail(seqs))

(***************************************************************************)
(* Paths, tokens and errors                                                *)
(***************************************************************************)

\* an absolute path: a directory and a file name in it
Path(dir, name) == [dir |-> dir, name |-> name]

\* the empty source-file identifier
NoFile == Path("", <<>>)

\* class Token
Token(type, value, line, source_file) ==
    [type |-> type, value |-> value, line |-> line, source_file |-> source_file]

\* no exception in flight
NoError == [type |-> "None"]

\* raise SyntaxError(message): `text` is the lexeme or character the message
\* quotes, `line` the line it names (0: none), `source_file` the file it names
\* (NoFile: none)
SyntaxError(message, text, line, source_file) ==
    [type |-> "SyntaxError", message |-> message, text |-> text,
     line |-> line, source_file |-> source_file]

\* raise FileNotFoundError("Could not find include file '<name>'")
FileNotFoundError(name) ==
    [type |-> "FileNotFoundError", message |-> "Could not find include file",
     text |-> name, line |-> 0, source_file |-> NoFile]

\* a KeyError raised by a dictionary lookup
KeyError(key) ==
    [type |-> "KeyError", message |-> key, text |-> <<>>,
     line |-> 0, source_file |-> NoFile]

(***************************************************************************)
(* Lexer                                                                   *)
(***************************************************************************)

\* at most one character is scanned
ScanWhile_one(source, position, chars) ==
    IF position <= Len(source) /\ source[position] \in chars
    THEN position + 1
    ELSE position

\* while position < len(source) and source[position] in chars: position += 1
RECURSIVE ScanWhile(_, _, _)
ScanWhile(source, position, chars) ==
    IF position <= Len(source) /\ source[position] \in chars
    THEN ScanWhile(source, position + 1, chars)
    ELSE position

\* a comment runs to the end of the input
FindNewline_to_end(source, position) == Len(source) + 1

\* source.find('\n', position), len(source) when there is none
RECURSIVE FindNewline(_, _)
FindNewline(source, position) ==
    IF position > Len(source) THEN Len(source) + 1
    ELSE IF source[position] = "\n" THEN position
    ELSE FindNewline(source, position + 1)

\* the first quote closes the string, a backslash before it or not
ScanString_no_escape(source, position) ==
    IF \E n \in position..Len(source) : source[n] = Quote
    THEN CHOOSE n \in position..Len(source) :
            source[n] = Quote /\ \A m \in position..(n - 1) : source[m] # Quote
    ELSE Len(source) + 1

\* the loop over the body of a string literal: a backslash that is not the
\* last character hides the character after it
RECURSIVE ScanString(_, _)
ScanString(source, position) ==
    IF position <= Len(source) /\ source[position] # Quote
    THEN IF source[position] = Backslash /\ position + 1 <= Len(source)
         THEN ScanString(source, position + 2)
         ELSE ScanString(source, position + 1)
    ELSE position

\* the single-character tokens
SimpleTokenType(char) ==
    CASE char = "(" -> "LEFT_PAREN"
      [] char = ")" -> "RIGHT_PAREN"
      [] char = "{" -> "LEFT_BRACE"
      [] char = "}" -> "RIGHT_BRACE"
      [] char = "," -> "COMMA"
      [] char = ";" -> "SEMICOLON"

SimpleChars == {"(", ")", "{", "}", ",", ";"}

\* the keyword is taken only as a whole word
AtFunctionKeyword_whole_word(source, position) ==
    /\ StartsWith(source, position, KwVoid)
    /\ ~(/\ position + Len(KwVoid) <= Len(source)
         /\ source[position + Len(KwVoid)] \in IdentPart)

\* self.source[self.position:].startswith('void')
AtFunctionKeyword(source, position) == StartsWith(source, position, KwVoid)

\* one pass of the loop of Lexer.tokenize at `position`, the line counter
\* being `line`: [error, position, line, tokens], the position and the line
\* counter after the pass and the tokens it appended (none or one)
LexStep(source, source_file, position, line) ==
    LET char == source[position]
        skip(next, next_line) ==
            [error |-> NoError, position |-> next, line |-> next_line, tokens |-> <<>>]
        emit(type, value, next) ==
            [error |-> NoError, position |-> next, line |-> line,
             tokens |-> <<Token(type, value, line, source_file)>>]
        raise(e) == [error |-> e, position |-> position, line |-> line, tokens |-> <<>>]
    IN
    IF char \in Whitespace
    THEN skip(position + 1, IF char = "\n" THEN line + 1 ELSE line)
    ELSE IF /\ char = "/"
            /\ position + 1 <= Len(source)
            /\ source[position + 1] = "/"
    THEN skip(FindNewline(source, position), line)
    ELSE IF char = "#"
    THEN IF StartsWith(source, position, KwMInclude)
         THEN emit("INCLUDE", KwMInclude, position + Len(KwMInclude))
         ELSE IF StartsWith(source, position, KwInclude)
         THEN emit("INCLUDE", KwInclude, position + Len(KwInclude))
         ELSE skip(position + 1, line)
    ELSE IF AtFunctionKeyword(source, position)
    THEN emit("FUNCTION", KwVoid, position + Len(KwVoid))
    ELSE IF char \in IdentStart
    THEN LET end == ScanWhile(source, position, IdentPart)
         IN  emit("IDENTIFIER", SubSeq(source, position, end - 1), end)
    ELSE IF char \in Digits
    THEN LET end == ScanWhile(source, position, Digits)
         IN  emit("NUMBER", SubSeq(source, position, end - 1), end)
    ELSE IF char = Quote
    THEN LET close == ScanString(source, position + 1)
         IN  IF close > Len(source)
             THEN raise(SyntaxError("Unterminated string", <<>>, line, NoFile))
             ELSE emit("STRING", SubSeq(source, position, close), close + 1)
    ELSE IF char \in SimpleChars
    THEN emit(SimpleTokenType(char), <<char>>, position + 1)
    ELSE IF char = "$"
    THEN LET end == ScanWhile(source, position + 1, Digits)
         IN  IF end > position + 1
             THEN emit("IDENTIFIER", SubSeq(source, position, end - 1), end)
             ELSE emit("IDENTIFIER", <<"$">>, end)
    ELSE raise(SyntaxError("Unexpected character", <<char>>, line, source_file))

\* Lexer.tokenize from `position` on, at line `line`, with `tokens` emitted so
\* far: the result is [error, tokens], tokens being returned only with
\* error = NoError
RECURSIVE Lex(_, _, _, _, _)
Lex(source, source_file, position, line, tokens) ==
    IF position > Len(source)
    THEN [error |-> NoError,
          tokens |-> Append(tokens, Token("EOF", <<>>, line, source_file))]
    ELSE LET step == LexStep(source, source_file, position, line)
         IN  IF step.error # NoError
             THEN [error |-> step.error, tokens |-> <<>>]
             ELSE Lex(source, source_file, step.position, step.line,
                      tokens \o step.tokens)

\* Lexer(source, source_file).tokenize()
Tokenize(source, source_file) == Lex(source, source_file, 1, 1, <<>>)

(***************************************************************************)
(* The file system and the include resolver's path resolution              *)
(***************************************************************************)

\* the directory of the entry file: os.path.dirname(os.path.abspath(input_file))
BaseDir == "root"

\* the directory of the executable, os.path.dirname(os.path.abspath(sys.argv[0]))
ExecDir == "exe"

\* os.path.join(exec_dir, 'include')
ExecIncludeDir == "exe/include"

\* os.getcwd(): the compiler is run from the entry file's directory
Cwd == "root"

\* the directories that exist (os.path.isdir)
Directories == {BaseDir, ExecDir, ExecIncludeDir}

\* FileLoader.add_search_path
AddSearchPath(search_paths, path) ==
    IF /\ path # ""
       /\ path \in Directories
       /\ \A k \in 1..Len(search_paths) : search_paths[k] # path
    THEN Append(search_paths, path)
    ELSE search_paths

\* the search paths compile_wake_to_masm sets up: FileLoader(base_dir), then
\* the executable's directory, its include directory and the working directory
SearchPaths ==
    AddSearchPath(
        AddSearchPath(
            AddSearchPath(AddSearchPath(<<>>, BaseDir), ExecDir),
            ExecIncludeDir),
        Cwd)

\* os.path.isfile
IsFile(fs, path) == path \in DOMAIN fs

\* FileLoader.load_file: the content of the file as one text
LoadFile(fs, path) == JoinLines(fs[path])

\* the directory of the current file is not tried
Candidates_search_paths_only(include_path, current_file) ==
    [k \in 1..Len(SearchPaths) |-> Path(SearchPaths[k], include_path)]

\* the candidates resolve_include_path tries for one name, in order: the
\* directory of the current file, then every search path
Candidates(include_path, current_file) ==
    <<Path(current_file.dir, include_path)>>
        \o [k \in 1..Len(SearchPaths) |-> Path(SearchPaths[k], include_path)]

\* the first existing candidate, NoFile when there is none
FirstExisting(fs, candidates) ==
    LET found == {k \in 1..Len(candidates) : IsFile(fs, candidates[k])}
    IN  IF found = {} THEN NoFile
        ELSE candidates[CHOOSE k \in found : \A j \in found : k <= j]

\* FileLoader.resolve_include_path: [error, path]
RECURSIVE ResolveIncludePath(_, _, _)
ResolveIncludePath(fs, include_path, current_file) ==
    LET first == FirstExisting(fs, Candidates(include_path, current_file))
    IN  IF first # NoFile
        THEN [error |-> NoError, path |-> first]
        ELSE IF ~EndsWith(Lower(include_path), WakeExt)
        THEN ResolveIncludePath(fs, include_path \o WakeExt, current_file)
        ELSE [error |-> FileNotFoundError(include_path), path |-> NoFile]

(***************************************************************************)
(* Parser: nodes and the token cursor                                      *)
(***************************************************************************)

\* Node.value of a node whose value is a plain string
StrValue(s) == [string |-> s]

\* Node.value of a node built without a value (None)
NoValue == [none |-> TRUE]

\* class Node: value is a dictionary (a record of its keys), a string or None
Node(type, value) == [type |-> type, value |-> value, children |-> <<>>]

\* no node: what parse_include returns for a plain #include
NoNode == [type |-> "None", value |-> NoValue, children |-> <<>>]

\* Parser.peek; the cursor counts from 1
Peek(tokens, current) == tokens[current]

\* Parser.previous
Previous(tokens, current) == tokens[current - 1]

\* Parser.is_at_end
IsAtEnd(tokens, current) == Peek(tokens, current).type = "EOF"

\* Parser.check
Check(tokens, current, type) ==
    IF IsAtEnd(tokens, current) THEN FALSE
    ELSE Peek(tokens, current).type = type

\* Parser.advance: the cursor after the call
Advance(tokens, current) ==
    IF ~IsAtEnd(tokens, current) THEN current + 1 ELSE current

\* Parser.match on one type: the cursor after the call (it moved iff it matched)
Match(tokens, current, type) ==
    IF Check(tokens, current, type) THEN Advance(tokens, current) ELSE current

\* while self.match(TokenType.SEMICOLON): pass
RECURSIVE SkipSemicolons(_, _)
SkipSemicolons(tokens, current) ==
    IF Check(tokens, current, "SEMICOLON")
    THEN SkipSemicolons(tokens, Advance(tokens, current))
    ELSE current

(***************************************************************************)
(* A statement parser runs a fixed list of steps over a parse state        *)
(* [error, current, operands]: once a step has raised, the later steps are *)
(* not run.                                                                *)
(***************************************************************************)

ParseState(current) == [error |-> NoError, current |-> current, operands |-> <<>>]

\* Parser.consume(type, message): the error names the line and the file of the
\* current token
Consume(tokens, p, type, message) ==
    IF p.error # NoError THEN p
    ELSE IF Check(tokens, p.current, type)
    THEN [p EXCEPT !.current = Advance(tokens, p.current)]
    ELSE [p EXCEPT !.error =
              SyntaxError(message, <<>>, Peek(tokens, p.current).line,
                          Peek(tokens, p.current).source_file)]

\* if not self.match(t1) and not self.match(t2): raise SyntaxError(f"{message}
\* at line {self.peek().line}"); operand = self.previous().value
Operand(tokens, p, types, message) ==
    IF p.error # NoError THEN p
    ELSE IF \E t \in types : Check(tokens, p.current, t)
    THEN [p EXCEPT !.current = Advance(tokens, p.current),
                   !.operands = Append(@, Peek(tokens, p.current).value)]
    ELSE [p EXCEPT !.error =
              SyntaxError(message, <<>>, Peek(tokens, p.current).line, NoFile)]

\* self.match(TokenType.SEMICOLON): the optional semicolon after a statement
OptionalSemicolon(tokens, p) ==
    IF p.error # NoError THEN p
    ELSE [p EXCEPT !.current = Match(tokens, p.current, "SEMICOLON")]

\* the result of a statement parser: [error, current, node]
Parsed(p, node) ==
    [error |-> p.error, current |-> p.current,
     node |-> IF p.error = NoError THEN node ELSE NoNode]

\* target[1:-1] if target.startswith('"') and target.endswith('"') else target
Unquote(target) ==
    IF Len(target) >= 1 /\ target[1] = Quote /\ target[Len(target)] = Quote
    THEN SubSeq(target, 2, Len(target) - 1)
    ELSE target

\* the identifier-to-instruction dispatch of parse_function: the node type an
\* instruction name stands for, "UNKNOWN" for any other identifier
InstructionNodeType(identifier) ==
    CASE identifier = <<"m", "o", "v">> -> "MOV"
      [] identifier = <<"d", "b">> -> "DB"
      [] identifier = <<"c", "a", "l", "l">> -> "CALL"
      [] identifier = <<"h", "l", "t">> -> "HLT"
      [] identifier = <<"r", "e", "t">> -> "RET"
      [] identifier = <<"a", "d", "d">> -> "ADD"
      [] identifier = <<"s", "u", "b">> -> "SUB"
      [] identifier = <<"m", "u", "l">> -> "MUL"
      [] identifier = <<"d", "i", "v">> -> "DIV"
      [] identifier = <<"i", "n", "c">> -> "INC"
      [] identifier = <<"j", "m", "p">> -> "JMP"
      [] identifier = <<"c", "m", "p">> -> "CMP"
      [] identifier = <<"j", "e">> -> "JE"
      [] identifier = <<"j", "n", "e">> -> "JNE"
      [] identifier = <<"j", "l">> -> "JL"
      [] identifier = <<"j", "g">> -> "JG"
      [] identifier = <<"p", "u", "s", "h">> -> "PUSH"
      [] identifier = <<"p", "o", "p">> -> "POP"
      [] identifier = <<"o", "u", "t">> -> "OUT"
      [] identifier = <<"c", "o", "u", "t">> -> "COUT"
      [] identifier = <<"e", "x", "i", "t">> -> "EXIT"
      [] identifier = <<"a", "n", "d">> -> "AND"
      [] identifier = <<"o", "r">> -> "OR"
      [] identifier = <<"x", "o", "r">> -> "XOR"
      [] identifier = <<"n", "o", "t">> -> "NOT"
      [] identifier = <<"s", "h", "l">> -> "SHL"
      [] identifier = <<"s", "h", "r">> -> "SHR"
      [] OTHER -> "UNKNOWN"

\* the node types parse_function hands to each shared statement parser
BinaryTypes == {"ADD", "SUB", "MUL", "DIV", "CMP", "AND", "OR", "XOR", "SHL", "SHR"}

UnaryTypes == {"INC", "PUSH", "POP", "EXIT", "NOT"}

ConditionalJumpTypes == {"JE", "JNE", "JL", "JG"}

OutTypes == {"OUT", "COUT"}

\* Parser.parse_mov_statement
parse_mov_statement(tokens, current) ==
    LET p1 == Consume(tokens, ParseState(current), "LEFT_PAREN", "Expected '(' after 'mov'")
        p2 == Operand(tokens, p1, {"IDENTIFIER", "NUMBER"}, "Expected destination")
        p3 == Consume(tokens, p2, "COMMA", "Expected ',' between arguments")
        p4 == Operand(tokens, p3, {"IDENTIFIER", "NUMBER"}, "Expected source")
        p5 == Consume(tokens, p4, "RIGHT_PAREN", "Expected ')' after arguments")
        p6 == OptionalSemicolon(tokens, p5)
    IN  Parsed(p6, Node("MOV", [dest |-> p6.operands[1], src |-> p6.operands[2]]))

\* the stored address keeps its $
parse_db_statement_keeps_dollar(tokens, current) ==
    LET p1 == Consume(tokens, ParseState(current), "LEFT_PAREN", "Expected '(' after 'db'")
        p2 == Operand(tokens, p1, {"IDENTIFIER"}, "Expected address")
        address_token == p2.operands[1]
        p3 == IF p2.error = NoError /\ ~StartsWith(address_token, 1, <<"$">>)
              THEN [p2 EXCEPT !.error =
                        SyntaxError("Address in db statement must start with $", <<>>,
                                    Peek(tokens, p2.current).line, NoFile)]
              ELSE p2
        address == address_token
        p4 == Consume(tokens, p3, "COMMA", "Expected ',' between arguments")
        p5 == Operand(tokens, p4, {"STRING"}, "Expected string")
        p6 == Consume(tokens, p5, "RIGHT_PAREN", "Expected ')' after arguments")
        p7 == OptionalSemicolon(tokens, p6)
    IN  Parsed(p7, Node("DB", [address |-> address, string |-> p7.operands[2]]))

\* Parser.parse_db_statement
parse_db_statement(tokens, current) ==
    LET p1 == Consume(tokens, ParseState(current), "LEFT_PAREN", "Expected '(' after 'db'")
        p2 == Operand(tokens, p1, {"IDENTIFIER"}, "Expected address")
        address_token == p2.operands[1]
        p3 == IF p2.error = NoError /\ ~StartsWith(address_token, 1, <<"$">>)
              THEN [p2 EXCEPT !.error =
                        SyntaxError("Address in db statement must start with $", <<>>,
                                    Peek(tokens, p2.current).line, NoFile)]
              ELSE p2
        address == IF Len(address_token) > 1 THEN Tail(address_token) ELSE <<>>
        p4 == Consume(tokens, p3, "COMMA", "Expected ',' between arguments")
        p5 == Operand(tokens, p4, {"STRING"}, "Expected string")
        p6 == Consume(tokens, p5, "RIGHT_PAREN", "Expected ')' after arguments")
        p7 == OptionalSemicolon(tokens, p6)
    IN  Parsed(p7, Node("DB", [address |-> address, string |-> p7.operands[2]]))

\* the name of the called function loses its quotes
parse_call_statement_unquoted(tokens, current) ==
    LET p1 == Consume(tokens, ParseState(current), "LEFT_PAREN", "Expected '(' after 'call'")
        p2 == Operand(tokens, p1, {"STRING"}, "Expected function name")
        p3 == Consume(tokens, p2, "RIGHT_PAREN", "Expected ')' after function name")
        p4 == OptionalSemicolon(tokens, p3)
    IN  Parsed(p4, Node("CALL", StrValue(Unquote(p4.operands[1]))))

\* Parser.parse_call_statement
parse_call_statement(tokens, current) ==
    LET p1 == Consume(tokens, ParseState(current), "LEFT_PAREN", "Expected '(' after 'call'")
        p2 == Operand(tokens, p1, {"STRING"}, "Expected function name")
        p3 == Consume(tokens, p2, "RIGHT_PAREN", "Expected ')' after function name")
        p4 == OptionalSemicolon(tokens, p3)
    IN  Parsed(p4, Node("CALL", StrValue(p4.operands[1])))

\* Parser.parse_hlt_statement
parse_hlt_statement(tokens, current) ==
    LET p1 == Consume(tokens, ParseState(current), "LEFT_PAREN", "Expected '(' after 'hlt'")
        p2 == Consume(tokens, p1, "RIGHT_PAREN", "Expected ')' after 'hlt'")
        p3 == OptionalSemicolon(tokens, p2)
    IN  Parsed(p3, Node("HLT", NoValue))

\* Parser.parse_ret_statement
parse_ret_statement(tokens, current) ==
    LET p1 == Consume(tokens, ParseState(current), "LEFT_PAREN", "Expected '(' after 'ret'")
        p2 == Consume(tokens, p1, "RIGHT_PAREN", "Expected ')' after 'ret'")
        p3 == OptionalSemicolon(tokens, p2)
    IN  Parsed(p3, Node("RET", NoValue))

\* Parser.parse_binary_instruction
parse_binary_instruction(tokens, current, node_type) ==
    LET p1 == Consume(tokens, ParseState(current), "LEFT_PAREN", "Expected '(' after instruction")
        p2 == Operand(tokens, p1, {"IDENTIFIER", "NUMBER"}, "Expected first argument")
        p3 == Consume(tokens, p2, "COMMA", "Expected ',' between arguments")
        p4 == Operand(tokens, p3, {"IDENTIFIER", "NUMBER"}, "Expected second argument")
        p5 == Consume(tokens, p4, "RIGHT_PAREN", "Expected ')' after arguments")
        p6 == OptionalSemicolon(tokens, p5)
    IN  Parsed(p6, Node(node_type, [dest |-> p6.operands[1], src |-> p6.operands[2]]))

\* Parser.parse_unary_instruction
parse_unary_instruction(tokens, current, node_type) ==
    LET p1 == Consume(tokens, ParseState(current), "LEFT_PAREN", "Expected '(' after instruction")
        p2 == Operand(tokens, p1, {"IDENTIFIER", "NUMBER"}, "Expected argument")
        p3 == Consume(tokens, p2, "RIGHT_PAREN", "Expected ')' after argument")
        p4 == OptionalSemicolon(tokens, p3)
    IN  Parsed(p4, Node(node_type, StrValue(p4.operands[1])))

\* Parser.parse_jump_instruction
parse_jump_instruction(tokens, current, node_type) ==
    LET p1 == Consume(tokens, ParseState(current), "LEFT_PAREN", "Expected '(' after jump instruction")
        p2 == Operand(tokens, p1, {"STRING", "IDENTIFIER"}, "Expected label")
        p3 == Consume(tokens, p2, "RIGHT_PAREN", "Expected ')' after jump target")
        p4 == OptionalSemicolon(tokens, p3)
    IN  Parsed(p4, Node(node_type, StrValue(Unquote(p4.operands[1]))))

\* Parser.parse_conditional_jump_instruction
parse_conditional_jump_instruction(tokens, current, node_type) ==
    LET p1 == Consume(tokens, ParseState(current), "LEFT_PAREN", "Expected '(' after conditional jump")
        p2 == Operand(tokens, p1, {"STRING", "IDENTIFIER"}, "Expected true label")
        p3 == Consume(tokens, p2, "COMMA", "Expected ',' between jump targets")
        p4 == Operand(tokens, p3, {"STRING", "IDENTIFIER"}, "Expected false label")
        p5 == Consume(tokens, p4, "RIGHT_PAREN", "Expected ')' after jump targets")
        p6 == OptionalSemicolon(tokens, p5)
    IN  Parsed(p6, Node(node_type, [true |-> Unquote(p6.operands[1]),
                                    false |-> Unquote(p6.operands[2])]))

\* Parser.parse_out_instruction
parse_out_instruction(tokens, current, node_type) ==
    LET p1 == Consume(tokens, ParseState(current), "LEFT_PAREN", "Expected '(' after output instruction")
        p2 == Operand(tokens, p1, {"NUMBER", "IDENTIFIER"},
                      "Expected first argument (port number/identifier)")
        p3 == Consume(tokens, p2, "COMMA", "Expected ',' between output arguments")
        p4 == Operand(tokens, p3, {"IDENTIFIER"},
                      "Expected second argument (register/identifier/address)")
        p5 == Consume(tokens, p4, "RIGHT_PAREN", "Expected ')' after output arguments")
        p6 == OptionalSemicolon(tokens, p5)
    IN  Parsed(p6, Node(node_type, [arg1 |-> p6.operands[1], arg2 |-> p6.operands[2]]))

\* the if/elif chain of parse_function over the identifier just matched
\* (`current` is the cursor after it): [error, current, node]
ParseStatement(tokens, current, identifier) ==
    LET node_type == InstructionNodeType(identifier)
        token == Previous(tokens, current)
    IN  CASE node_type = "MOV" -> parse_mov_statement(tokens, current)
          [] node_type = "DB" -> parse_db_statement(tokens, current)
          [] node_type = "CALL" -> parse_call_statement(tokens, current)
          [] node_type = "HLT" -> parse_hlt_statement(tokens, current)
          [] node_type = "RET" -> parse_ret_statement(tokens, current)
          [] node_type \in BinaryTypes ->
                parse_binary_instruction(tokens, current, node_type)
          [] node_type \in UnaryTypes ->
                parse_unary_instruction(tokens, current, node_type)
          [] node_type = "JMP" -> parse_jump_instruction(tokens, current, node_type)
          [] node_type \in ConditionalJumpTypes ->
                parse_conditional_jump_instruction(tokens, current, node_type)
          [] node_type \in OutTypes ->
                parse_out_instruction(tokens, current, node_type)
          [] OTHER ->
                [error |-> SyntaxError("Unexpected identifier", identifier,
                                       token.line, token.source_file),
                 current |-> current, node |-> NoNode]

\* every directive followed by its path gives an include node
parse_include_any(tokens, current) ==
    LET include_token == Previous(tokens, current)
        p1 == Consume(tokens, ParseState(current), "STRING",
                      "Expected string path after directive")
        path_token == Previous(tokens, p1.current)
    IN  Parsed(p1, Node("INCLUDE", [directive |-> include_token.value,
                                    path |-> path_token.value]))

\* the path of the include node loses its quotes
parse_include_unquoted(tokens, current) ==
    LET include_token == Previous(tokens, current)
        p1 == Consume(tokens, ParseState(current), "STRING",
                      "Expected string path after directive")
        path_token == Previous(tokens, p1.current)
    IN  IF p1.error = NoError /\ include_token.value = KwMInclude
        THEN Parsed(p1, Node("INCLUDE", [directive |-> include_token.value,
                                         path |-> Unquote(path_token.value)]))
        ELSE Parsed(p1, NoNode)

\* Parser.parse_include, called with the cursor after the directive token
parse_include(tokens, current) ==
    LET include_token == Previous(tokens, current)
        p1 == Consume(tokens, ParseState(current), "STRING",
                      "Expected string path after directive")
        path_token == Previous(tokens, p1.current)
    IN  IF p1.error = NoError /\ include_token.value = KwMInclude
        THEN Parsed(p1, Node("INCLUDE", [directive |-> include_token.value,
                                         path |-> path_token.value]))
        ELSE Parsed(p1, NoNode)

\* the head of Parser.parse_function, called with the cursor after `void`: the
\* name, `(`, `)` and `{`; [error, current, node], node being the Function node
\* without children yet
parse_function_head(tokens, current) ==
    LET p1 == Operand(tokens, ParseState(current), {"IDENTIFIER"}, "Expected function name")
        p2 == Consume(tokens, p1, "LEFT_PAREN", "Expected '(' after function name")
        p3 == Consume(tokens, p2, "RIGHT_PAREN", "Expected ')' after parameters")
        p4 == Consume(tokens, p3, "LEFT_BRACE", "Expected '{' before function body")
    IN  Parsed(p4, Node("FUNCTION", StrValue(p4.operands[1])))

(***************************************************************************)
(* Code generator                                                          *)
(***************************************************************************)

\* the mnemonic the generator writes for a node type
Mnemonic(type) ==
    CASE type = "MOV" -> <<"M", "O", "V">>
      [] type = "DB" -> <<"D", "B">>
      [] type = "CALL" -> <<"C", "A", "L", "L">>
      [] type = "HLT" -> <<"H", "L", "T">>
      [] type = "RET" -> <<"R", "E", "T">>
      [] type = "ADD" -> <<"A", "D", "D">>
      [] type = "SUB" -> <<"S", "U", "B">>
      [] type = "MUL" -> <<"M", "U", "L">>
      [] type = "DIV" -> <<"D", "I", "V">>
      [] type = "INC" -> <<"I", "N", "C">>
      [] type = "JMP" -> <<"J", "M", "P">>
      [] type = "CMP" -> <<"C", "M", "P">>
      [] type = "JE" -> <<"J", "E">>
      [] type = "JNE" -> <<"J", "N", "E">>
      [] type = "JL" -> <<"J", "L">>
      [] type = "JG" -> <<"J", "G">>
      [] type = "PUSH" -> <<"P", "U", "S", "H">>
      [] type = "POP" -> <<"P", "O", "P">>
      [] type = "OUT" -> <<"O", "U", "T">>
      [] type = "COUT" -> <<"C", "O", "U", "T">>
      [] type = "EXIT" -> <<"E", "X", "I", "T">>
      [] type = "AND" -> <<"A", "N", "D">>
      [] type = "OR" -> <<"O", "R">>
      [] type = "XOR" -> <<"X", "O", "R">>
      [] type = "NOT" -> <<"N", "O", "T">>
      [] type = "SHL" -> <<"S", "H", "L">>
      [] type = "SHR" -> <<"S", "H", "R">>

\* the indent is two spaces wide
indent_line_by_two(line) == <<" ", " ">> \o line

\* indent_line with indent_level = 1: '    ' * indent_level + line
indent_line(line) == <<" ", " ", " ", " ">> \o line

\* the first of `keys`, in the order the format string reads them, that the
\* dictionary does not hold: the lookup that raises KeyError; "" when all are
\* held
MissingKey(value, keys) ==
    LET missing == {k \in 1..Len(keys) : keys[k] \notin DOMAIN value}
    IN  IF missing = {} THEN ""
        ELSE keys[CHOOSE k \in missing : \A j \in missing : k <= j]

\* one branch of the if/elif chain that reads two keys of statement.value:
\* f"<head>{value[k1]}<sep>{value[k2]}"
FormatTwo(statement, head, k1, sep, k2) ==
    LET missing == MissingKey(statement.value, <<k1, k2>>)
    IN  IF missing # ""
        THEN [error |-> KeyError(missing), output |-> <<>>]
        ELSE [error |-> NoError,
              output |-> <<indent_line(head \o statement.value[k1] \o sep
                                            \o statement.value[k2])>>]

\* one branch that formats statement.value itself: f"<head>{statement.value}"
FormatOne(statement, head) ==
    [error |-> NoError, output |-> <<indent_line(head \o statement.value.string)>>]

\* the body of the loop of generate_function for one statement: the lines it
\* appends to the output, or the error its format string raises
GenerateStatement(statement) ==
    LET type == statement.type
    IN  CASE type \in {"MOV"} \cup BinaryTypes ->
                FormatTwo(statement, Mnemonic(type) \o <<" ">>, "dest", <<" ">>, "src")
          [] type = "DB" ->
                FormatTwo(statement, <<"D", "B", " ", "$">>, "address", <<" ">>, "string")
          [] type = "CALL" -> FormatOne(statement, <<"C", "A", "L", "L", " ", "#">>)
          [] type = "HLT" -> [error |-> NoError, output |-> <<Mnemonic("HLT")>>]
          [] type = "RET" -> [error |-> NoError, output |-> <<Mnemonic("RET")>>]
          [] type \in UnaryTypes -> FormatOne(statement, Mnemonic(type) \o <<" ">>)
          [] type = "JMP" -> FormatOne(statement, <<"J", "M", "P", " ", "#">>)
          [] type \in ConditionalJumpTypes ->
                FormatTwo(statement, Mnemonic(type) \o <<" ", "#">>, "true",
                          <<" ", "#">>, "false")
          [] type \in OutTypes ->
                FormatTwo(statement, Mnemonic(type) \o <<" ">>, "port", <<" ">>, "value")
          [] OTHER -> [error |-> NoError, output |-> <<>>]

\* the loop of generate_function over function_node.children from `k` on
RECURSIVE GenerateStatements(_, _)
GenerateStatements(children, k) ==
    IF k > Len(children) THEN [error |-> NoError, output |-> <<>>]
    ELSE LET one == GenerateStatement(children[k])
             rest == GenerateStatements(children, k + 1)
         IN  IF one.error # NoError THEN one
             ELSE IF rest.error # NoError THEN rest
             ELSE [error |-> NoError, output |-> one.output \o rest.output]

\* CodeGenerator.generate_function: the label, the statements' lines and one
\* empty line
generate_function(function_node) ==
    LET body == GenerateStatements(function_node.children, 1)
    IN  IF body.error # NoError THEN body
        ELSE [error |-> NoError,
              output |-> <<<<"L", "B", "L", " ">> \o function_node.value.string>>
                         \o body.output \o << <<>> >>]

\* the loop of CodeGenerator.generate over ast.children from `k` on
RECURSIVE GenerateNodes(_, _)
GenerateNodes(children, k) ==
    IF k > Len(children) THEN [error |-> NoError, output |-> <<>>]
    ELSE LET node == children[k]
             one == IF node.type = "INCLUDE"
                    THEN IF "path" \in DOMAIN node.value
                         THEN [error |-> NoError,
                               output |-> <<KwInclude \o <<" ">> \o node.value.path>>]
                         ELSE [error |-> KeyError("path"), output |-> <<>>]
                    ELSE IF node.type = "FUNCTION"
                    THEN generate_function(node)
                    ELSE [error |-> NoError, output |-> <<>>]
             rest == GenerateNodes(children, k + 1)
         IN  IF one.error # NoError THEN one
             ELSE IF rest.error # NoError THEN rest
             ELSE [error |-> NoError, output |-> one.output \o rest.output]

\* CodeGenerator.generate: [error, output (the lines), text ('\n'.join(output))]
generate(ast) ==
    LET got == GenerateNodes(ast.children, 1)
    IN  [error |-> got.error, output |-> got.output,
         text |-> IF got.error = NoError THEN JoinLines(got.output) ELSE <<>>]

(***************************************************************************)
(* The inputs of a compilation: the files on disk                          *)
(***************************************************************************)

\* the most lines an entry file made of include lines and functions holds
MaxChunks == 2

\* the most statements the body of a generated function holds
MaxStmts == 2

\* the lines the test files are made of
ChunkText(id) ==
    CASE id = "IncB" -> <<"#", "i", "n", "c", "l", "u", "d", "e", " ", "\"", "b", "\"">>   \* #include "b"
      [] id = "IncC" -> <<"#", "i", "n", "c", "l", "u", "d", "e", " ", "\"", "c", "\"">>   \* #include "c"
      [] id = "IncA" -> <<"#", "i", "n", "c", "l", "u", "d", "e", " ", "\"", "a", "\"">>   \* #include "a"
      [] id = "IncM" -> <<"#", "i", "n", "c", "l", "u", "d", "e", " ", "\"", "m", "\"">>   \* #include "m"
      [] id = "IncMW" -> <<"#", "i", "n", "c", "l", "u", "d", "e", " ", "\"", "m", ".", "w", "a", "k", "e", "\"">>   \* #include "m.wake"
      [] id = "IncBW" -> <<"#", "i", "n", "c", "l", "u", "d", "e", " ", "\"", "b", ".", "w", "a", "k", "e", "\"">>   \* #include "b.wake"
      [] id = "MInc" -> <<"#", "M", "_", "i", "n", "c", "l", "u", "d", "e", " ", "\"", "x", ".", "i", "n", "c", "\"">>   \* #M_include "x.inc"
      [] id = "Bare" -> <<"#", "i", "n", "c", "l", "u", "d", "e">>   \* #include
      [] id = "BareM" -> <<"#", "M", "_", "i", "n", "c", "l", "u", "d", "e">>   \* #M_include
      [] id = "Str2" -> <<"\"", "p", "\n", "q", "\"">>   \* "p\nq"
      [] id = "FunF" -> <<"v", "o", "i", "d", " ", "f", "(", ")", "{", "h", "l", "t", "(", ")", "}">>   \* void f(){hlt()}
      [] id = "FunG" -> <<"v", "o", "i", "d", " ", "g", "(", ")", "{", "r", "e", "t", "(", ")", "}">>   \* void g(){ret()}
      [] id = "FunH" -> <<"v", "o", "i", "d", " ", "h", "(", ")", "{", "i", "n", "c", "(", "r", "1", ")", "}">>   \* void h(){inc(r1)}
      [] id = "FunK" -> <<"v", "o", "i", "d", " ", "k", "(", ")", "{", "p", "u", "s", "h", "(", "7", ")", "}">>   \* void k(){push(7)}
      [] id = "FunFoo" -> <<"v", "o", "i", "d", " ", "f", "(", ")", "{", "i", "n", "c", "(", "r", "1", ")", " ", "f", "o", "o", "(", "r", "1", ")", "}">>   \* void f(){inc(r1) foo(r1)}
      [] id = "Voids" -> <<"a", "v", "o", "i", "d", " ", "v", "o", "i", "d", "_", "1", " ", "v", "o", "i", "d", "s">>   \* avoid void_1 voids
      [] id = "LexErr" -> <<"g", " ", "@">>   \* g @
      [] id = "Addresses" -> <<"$", "7", " ", "$", " ", "$", "1", "2", "a">>   \* $7 $ $12a
      [] id = "Comment" -> <<"r", "1", " ", "/", "/", " ", "c", " ", "@", " ", "\"">>   \* r1 // c @ "
      [] id = "Stray" -> <<"#", "x", " ", "#", " ", "5">>   \* #x # 5
      [] id = "Escaped" -> <<"\"", "a", "\\", "\"", "b", "\"", " ", "\"", "\\", "\\", "\"">>   \* "a\"b" "\\"
      [] id = "Unterminated" -> <<"x", " ", "\"", "a", "b">>   \* x "ab
      [] id = "EscapedEnd" -> <<"\"", "a", "\\", "\"">>   \* "a\"
      [] id = "Slash" -> <<"a", " ", "/", " ", "b">>   \* a / b
      [] id = "Glued" -> <<"\t", "v", "o", "i", "d", "x", " ", "1", "2", "a", "b">>   \* <tab>voidx 12ab
      [] id = "Str2Then" -> <<"\"", "p", "\n", "q", "\"", " ", "r", "1">>   \* "p<newline>q" r1
      [] id = "Junk" -> <<")", " ", "7", " ", ",", " ", "x">>   \* ) 7 , x
      [] id = "FunJunkFun" -> <<"v", "o", "i", "d", " ", "f", "(", ")", "{", "}", " ", "7", " ", "#", "M", "_", "i", "n", "c", "l", "u", "d", "e", " ", "\"", "x", "\"", " ", ",", " ", "v", "o", "i", "d", " ", "g", "(", ")", "{", "}", " ", ";">>   \* void f(){} 7 #M_include "x" , void g(){} ;
      [] id = "Semicolons" -> <<"v", "o", "i", "d", " ", "m", "a", "i", "n", "(", ")", "{", ";", ";", "i", "n", "c", "(", "r", "1", ")", ";", ";", ";", "h", "l", "t", "(", ")", " ", "r", "e", "t", "(", ")", ";", ";", "}">>   \* void main(){;;inc(r1);;;hlt() ret();;}
      [] id = "Unclosed" -> <<"v", "o", "i", "d", " ", "m", "a", "i", "n", "(", ")", "{", "i", "n", "c", "(", "r", "1", ")", " ", "7", " ", ";">>   \* void main(){inc(r1) 7 ;
      [] id = "BodyJunk" -> <<"v", "o", "i", "d", " ", "f", "(", ")", "{", "7", " ", "\"", "s", "\"", " ", "(", " ", ",", " ", "{", " ", "v", "o", "i", "d", " ", "#", "M", "_", "i", "n", "c", "l", "u", "d", "e", " ", "\"", "x", "\"", " ", "h", "l", "t", "(", ")", "}">>   \* void f(){7 "s" ( , { void #M_include "x" hlt()}
      [] id = "OnlySemicolons" -> <<"v", "o", "i", "d", " ", "m", "a", "i", "n", "(", ")", "{", ";", ";", "}">>   \* void main(){;;}
      [] id = "AddThreeOperands" -> <<"v", "o", "i", "d", " ", "m", "a", "i", "n", "(", ")", " ", "{", " ", "m", "o", "v", "(", "r", "1", ",", " ", "5", ")", ";", " ", "a", "d", "d", "(", "r", "1", ",", " ", "r", "1", ",", " ", "2", ")", ";", " ", "h", "l", "t", "(", ")", ";", " ", "}">>   \* void main() { mov(r1, 5); add(r1, r1, 2); hlt(); }
      [] id = "AddTwoOperands" -> <<"v", "o", "i", "d", " ", "m", "a", "i", "n", "(", ")", " ", "{", " ", "m", "o", "v", "(", "r", "1", ",", " ", "5", ")", ";", " ", "a", "d", "d", "(", "r", "1", ",", " ", "2", ")", ";", " ", "h", "l", "t", "(", ")", ";", " ", "}">>   \* void main() { mov(r1, 5); add(r1, 2); hlt(); }

NameA == <<"a", ".", "w", "a", "k", "e">>

NameB == <<"b", ".", "w", "a", "k", "e">>

NameC == <<"c", ".", "w", "a", "k", "e">>

NameX == <<"x", ".", "i", "n", "c">>

NameM == <<"m", ".", "w", "a", "k", "e">>

NameMWW == <<"m", ".", "w", "a", "k", "e", ".", "w", "a", "k", "e">>

LxR1 == <<"r", "1">>

LxR2 == <<"r", "2">>

LxFive == <<"5">>

LxSeven == <<"7">>

LxOne == <<"1">>

LxAddr10 == <<"$", "1", "0">>

LxAddrBare == <<"$">>

LxStrHi == <<"\"", "h", "i", "\"">>

LxStrF == <<"\"", "f", "\"">>

LxLabelL == <<"L">>

LxMainName == <<"m", "a", "i", "n">>

FunOpen == <<"v", "o", "i", "d", " ", "m", "a", "i", "n", "(", ")", "{">>


\* the instruction names, as written in a source file, and one name that is
\* no instruction
Nm_mov == <<"m", "o", "v">>

Nm_db == <<"d", "b">>

Nm_call == <<"c", "a", "l", "l">>

Nm_hlt == <<"h", "l", "t">>

Nm_ret == <<"r", "e", "t">>

Nm_add == <<"a", "d", "d">>

Nm_sub == <<"s", "u", "b">>

Nm_mul == <<"m", "u", "l">>

Nm_div == <<"d", "i", "v">>

Nm_inc == <<"i", "n", "c">>

Nm_jmp == <<"j", "m", "p">>

Nm_cmp == <<"c", "m", "p">>

Nm_je == <<"j", "e">>

Nm_jne == <<"j", "n", "e">>

Nm_jl == <<"j", "l">>

Nm_jg == <<"j", "g">>

Nm_push == <<"p", "u", "s", "h">>

Nm_pop == <<"p", "o", "p">>

Nm_out == <<"o", "u", "t">>

Nm_cout == <<"c", "o", "u", "t">>

Nm_exit == <<"e", "x", "i", "t">>

Nm_and == <<"a", "n", "d">>

Nm_or == <<"o", "r">>

Nm_xor == <<"x", "o", "r">>

Nm_not == <<"n", "o", "t">>

Nm_shl == <<"s", "h", "l">>

Nm_shr == <<"s", "h", "r">>

Nm_foo == <<"f", "o", "o">>

\* the entry file: a.wake in the base directory
MainFile == Path(BaseDir, NameA)

FileB == Path(BaseDir, NameB)

\* c.wake lies in the include directory of the executable only
FileC == Path(ExecIncludeDir, NameC)

\* a second b.wake, in the include directory of the executable
ShadowB == Path(ExecIncludeDir, NameB)

FileX == Path(BaseDir, NameX)

\* m.wake, which b.wake and c.wake both include in one of the worlds
FileM == Path(BaseDir, NameM)

\* m.wake.wake, the name no include resolves to
FileMWW == Path(BaseDir, NameMWW)

\* a file's lines, from the names of its lines
Lines(ids) == [k \in 1..Len(ids) |-> ChunkText(ids[k])]

\* the files beside the entry file, by scenario
WorldNames ==
    {"plain", "cycle", "mutual", "self", "lexerr", "bare", "shadow", "nested", "extension",
     "diamond"}

World(w) ==
    CASE w = "plain" ->
            (FileB :> Lines(<<"FunG">>)) @@ (FileC :> Lines(<<"FunH">>))
      [] w = "cycle" ->
            (FileB :> Lines(<<"IncA", "FunG">>)) @@ (FileC :> Lines(<<"FunH">>))
                @@ (FileX :> Lines(<<"FunK">>))
      [] w = "mutual" ->
            (FileB :> Lines(<<"IncC", "FunG">>)) @@ (FileC :> Lines(<<"IncB", "FunH">>))
      [] w = "self" ->
            (FileB :> Lines(<<"FunG", "IncB">>)) @@ (FileC :> Lines(<<"FunH">>))
      [] w = "lexerr" ->
            (FileB :> Lines(<<"LexErr">>)) @@ (FileC :> Lines(<<"FunH">>))
      [] w = "bare" ->
            (FileB :> Lines(<<"FunG", "BareM">>)) @@ (FileC :> Lines(<<"FunH", "Bare">>))
      [] w = "shadow" ->
            (FileB :> Lines(<<"FunG">>)) @@ (FileC :> Lines(<<"IncB", "FunH">>))
                @@ (ShadowB :> Lines(<<"FunK">>))
      [] w = "nested" ->
            (FileB :> Lines(<<"IncM", "MInc", "FunG">>))
                @@ (FileC :> Lines(<<"Str2", "FunH">>))
      [] w = "extension" ->
            (FileB :> Lines(<<"IncMW", "FunG">>)) @@ (FileC :> Lines(<<"IncBW", "FunH">>))
                @@ (FileMWW :> Lines(<<"FunK">>))
      [] w = "diamond" ->
            (FileB :> Lines(<<"IncM", "FunG">>)) @@ (FileC :> Lines(<<"IncM", "FunH">>))
                @@ (FileM :> Lines(<<"FunK">>))

\* the lines an entry file is made of
EntryChunks == {"IncB", "IncC", "IncA", "IncM", "MInc", "Bare", "Str2", "FunF"}

\* the lines an entry file is made of when it stands alone on disk: texts for
\* the lexer (address literals, comments, stray characters, escapes, strings
\* that do not end, characters of no rule) and for the top-level loop of the
\* parser
SourceChunks ==
    {"Addresses", "Comment", "Stray", "Escaped", "Unterminated", "EscapedEnd", "Slash",
     "Glued", "Str2", "Str2Then", "LexErr", "Junk", "FunF", "FunFoo", "Voids"}

\* the sequences over S of length at most n
SeqsUpTo(S, n) == UNION {[1..k -> S] : k \in 0..n}

\* an operand as written: the kind of token it lexes to, and its text
Arg(kind, text) == [kind |-> kind, text |-> text]

\* a statement as written: name ( args ) and an optional semicolon
Stmt(name, args, semi) == [name |-> name, args |-> args, semi |-> semi]

BinaryNames ==
    {Nm_mov, Nm_add, Nm_sub, Nm_mul, Nm_div, Nm_cmp, Nm_and, Nm_or, Nm_xor,
     Nm_shl, Nm_shr}

UnaryNames == {Nm_inc, Nm_push, Nm_pop, Nm_exit, Nm_not}

ConditionalJumpNames == {Nm_je, Nm_jne, Nm_jl, Nm_jg}

OutNames == {Nm_out, Nm_cout}

NoOperandNames == {Nm_hlt, Nm_ret}

\* the statements a generated function starts with: every instruction kind,
\* with the operand kinds its parser takes, and a few statements no parser takes
FirstStmts ==
    {Stmt(n, <<Arg("IDENTIFIER", LxR1), Arg("NUMBER", LxFive)>>, TRUE) : n \in BinaryNames}
    \cup {Stmt(n, <<Arg("IDENTIFIER", LxR1)>>, TRUE) : n \in UnaryNames}
    \cup {Stmt(n, <<Arg("STRING", LxStrF), a>>, TRUE) :
             n \in ConditionalJumpNames,
             a \in {Arg("IDENTIFIER", LxLabelL), Arg("STRING", LxStrHi)}}
    \cup {Stmt(n, <<Arg("NUMBER", LxOne), a>>, TRUE) :
             n \in OutNames, a \in {Arg("IDENTIFIER", LxR1), Arg("STRING", LxStrHi)}}
    \cup {Stmt(n, <<>>, TRUE) : n \in NoOperandNames}
    \cup {Stmt(Nm_db, <<a, Arg("STRING", LxStrHi)>>, TRUE) :
             a \in {Arg("IDENTIFIER", LxAddr10), Arg("IDENTIFIER", LxAddrBare),
                    Arg("IDENTIFIER", LxR1)}}
    \cup {Stmt(Nm_call, <<Arg("STRING", LxStrF)>>, TRUE)}
    \cup {Stmt(Nm_jmp, <<a>>, TRUE) :
             a \in {Arg("STRING", LxStrF), Arg("IDENTIFIER", LxLabelL)}}
    \cup {Stmt(Nm_mov, <<Arg("NUMBER", LxSeven), Arg("IDENTIFIER", LxR2)>>, FALSE),
          Stmt(Nm_hlt, <<>>, FALSE),
          Stmt(Nm_add, <<Arg("IDENTIFIER", LxR1), Arg("IDENTIFIER", LxR1),
                         Arg("NUMBER", LxFive)>>, TRUE),
          Stmt(Nm_foo, <<Arg("IDENTIFIER", LxR1)>>, TRUE),
          Stmt(Nm_inc, <<>>, TRUE)}

\* the statements that follow the first one
NextStmts ==
    {Stmt(Nm_ret, <<>>, FALSE),
     Stmt(Nm_sub, <<Arg("IDENTIFIER", LxR2), Arg("NUMBER", LxSeven)>>, TRUE),
     Stmt(Nm_foo, <<Arg("IDENTIFIER", LxR1)>>, TRUE)}

\* the statement lists of the generated functions
StmtLists ==
    {<<>>} \cup
    {<<first>> \o rest : first \in FirstStmts, rest \in SeqsUpTo(NextStmts, MaxStmts - 1)}

\* the operands of a statement, separated by ", "
RECURSIVE ArgsText(_)
ArgsText(args) ==
    IF args = <<>> THEN <<>>
    ELSE IF Len(args) = 1 THEN args[1].text
    ELSE args[1].text \o <<",", " ">> \o ArgsText(Tail(args))

\* the text of a statement
StmtText(s) ==
    s.name \o <<"(">> \o ArgsText(s.args) \o <<")">>
        \o (IF s.semi THEN <<";">> ELSE <<" ">>)

\* the text of a function main whose body is the statements
FunctionText(stmts) ==
    FunOpen \o Flatten([k \in 1..Len(stmts) |-> StmtText(stmts[k])]) \o <<"}">>

\* the fixed scenarios
Scenarios ==
    {"AddThreeOperands", "AddTwoOperands", "FunJunkFun", "Semicolons", "OnlySemicolons",
     "Unclosed", "BodyJunk"}

(***************************************************************************)
(* The state of one run of compile_wake_to_masm                            *)
(***************************************************************************)

VARIABLES
    files,          \* the file system: path -> the lines of the file
    testcase,       \* how the files were written (read by no action)
    pc,             \* where the compile call stands
    loaded_files,   \* FileLoader.loaded_files
    stack,          \* the activations of process_file, the innermost last
    main_eof_token, \* process_includes' main_eof_token
    lexed,          \* the files tokenized so far, in order (a history)
    warnings,       \* the warnings printed so far
    tokens,         \* the merged stream process_includes returned: Parser.tokens
    current,        \* Parser.current, counted from 1
    program,        \* the Program node parse() is building
    function_node,  \* the Function node parse_function is building
    masm_code,      \* the text generate returned
    output_file,    \* the output file
    result,         \* what compile_wake_to_masm returned
    error,          \* the exception raised, NoError when none
    calls,          \* the files process_file was called on for a directive (a history)
    first           \* the outcome of the run before the entry file was edited (a history)

vars ==
    <<files, testcase, pc, loaded_files, stack, main_eof_token, lexed, warnings,
      tokens, current, program, function_node, masm_code, output_file, result, error,
      calls, first>>

\* main_eof_token = None
NoToken == Token("None", <<>>, 0, NoFile)

\* a text not produced yet
NoText == [present |-> FALSE, text |-> <<>>]

SomeText(text) == [present |-> TRUE, text |-> text]

\* one activation of process_file
Frame(abs_path, is_main_file, file_tokens) ==
    [abs_path |-> abs_path, is_main_file |-> is_main_file, tokens |-> file_tokens,
     i |-> 1, result_tokens |-> <<>>]

\* a printed warning: its kind and the token it is about
Warning(kind, token) == [kind |-> kind, token |-> token]

\* no run came before this one
NoFirst ==
    [done |-> FALSE, file |-> NoFile, tokens |-> <<>>, program |-> NoNode,
     masm_code |-> NoText, output_file |-> NoText, result |-> "pending", calls |-> <<>>,
     lexed |-> <<>>]

\* the state before compile_wake_to_masm is called, the files being on disk
Fresh ==
    /\ pc = "start"
    /\ loaded_files = {}
    /\ stack = <<>>
    /\ main_eof_token = NoToken
    /\ lexed = <<>>
    /\ warnings = <<>>
    /\ tokens = <<>>
    /\ current = 1
    /\ program = Node("PROGRAM", NoValue)
    /\ function_node = NoNode
    /\ masm_code = NoText
    /\ output_file = NoText
    /\ result = "pending"
    /\ error = NoError
    /\ calls = <<>>

\* the first run
Start == Fresh /\ first = NoFirst

TestCase(family, entry, world, stmts) ==
    [family |-> family, entry |-> entry, world |-> world, stmts |-> stmts]

\* an entry file of include lines and functions, beside the files of a world
InitIncludes ==
    \E entry \in SeqsUpTo(EntryChunks, MaxChunks), w \in WorldNames :
        /\ files = (MainFile :> Lines(entry)) @@ World(w)
        /\ testcase = TestCase("includes", entry, w, <<>>)

\* an entry file holding one function, main, alone on disk
InitStatements ==
    \E stmts \in StmtLists :
        /\ files = (MainFile :> <<FunctionText(stmts)>>)
        /\ testcase = TestCase("statements", <<>>, "none", stmts)

\* an entry file of lines of any text, alone on disk
InitSources ==
    \E entry \in SeqsUpTo(SourceChunks, MaxChunks) :
        /\ files = (MainFile :> Lines(entry))
        /\ testcase = TestCase("sources", entry, "none", <<>>)

\* an entry file holding a fixed text, alone on disk
InitScenarios ==
    \E id \in Scenarios :
        /\ files = (MainFile :> Lines(<<id>>))
        /\ testcase = TestCase("scenario", <<id>>, "none", <<>>)

Init == Start /\ (InitIncludes \/ InitStatements \/ InitScenarios \/ InitSources)

(***************************************************************************)
(* process_includes                                                        *)
(***************************************************************************)

\* the innermost activation of process_file
Top == stack[Len(stack)]

\* raise: the exception leaves every activation of process_file (each prints
\* and raises again) and reaches the except clauses of compile_wake_to_masm
Raise(e) ==
    /\ error' = e
    /\ pc' = "raised"

\* a file is never taken for visited
AlreadyLoaded_never(loaded, abs_path, is_main_file) == FALSE

\* if abs_path in self.loaded_files and not is_main_file
AlreadyLoaded(loaded, abs_path, is_main_file) == abs_path \in loaded /\ ~is_main_file

\* the included tokens are put before the tokens collected so far
Splice_in_front(result_tokens, included_tokens) == included_tokens \o result_tokens

\* result_tokens.extend(included_tokens)
Splice(result_tokens, included_tokens) == result_tokens \o included_tokens

\* a call process_file(path, is_main_file) from the state (loaded, stk):
\* skipped when the file was visited, else the file is marked, loaded and
\* tokenized, and a new activation starts
CallProcessFile(path, is_main_file, stk) ==
    IF AlreadyLoaded(loaded_files, path, is_main_file)
    THEN \* return []: the caller extends its result by nothing and goes on
         /\ stack' = [stk EXCEPT ![Len(stk)].i = @ + 2]
         /\ UNCHANGED <<loaded_files, lexed, main_eof_token, error, pc>>
    ELSE LET lex == Tokenize(LoadFile(files, path), path)
         IN  /\ loaded_files' = loaded_files \cup {path}
             /\ IF lex.error # NoError
                THEN /\ Raise(lex.error)
                     /\ UNCHANGED <<stack, lexed, main_eof_token>>
                ELSE /\ stack' = Append(stk, Frame(path, is_main_file, lex.tokens))
                     /\ lexed' = Append(lexed, path)
                     /\ main_eof_token' =
                            IF /\ is_main_file
                               /\ lex.tokens # <<>>
                               /\ lex.tokens[Len(lex.tokens)].type = "EOF"
                            THEN lex.tokens[Len(lex.tokens)]
                            ELSE main_eof_token
                     /\ UNCHANGED <<error, pc>>

\* the visited set is left as the call before left it
ResetLoadedFiles_never(loaded) == loaded

\* self.loaded_files = set(), at the start of process_includes
ResetLoadedFiles(loaded) == {}

\* compile_wake_to_masm up to the first call of process_file: the FileLoader
\* is built, process_includes empties loaded_files and calls
\* process_file(main_file_path, is_main_file=True)
ProcessIncludes ==
    /\ pc = "start"
    /\ LET lex == Tokenize(LoadFile(files, MainFile), MainFile)
       IN  /\ loaded_files' = ResetLoadedFiles(loaded_files) \cup {MainFile}
           /\ IF lex.error # NoError
              THEN /\ Raise(lex.error)
                   /\ UNCHANGED <<stack, lexed, main_eof_token>>
              ELSE /\ stack' = <<Frame(MainFile, TRUE, lex.tokens)>>
                   /\ lexed' = <<MainFile>>
                   /\ main_eof_token' =
                          IF lex.tokens[Len(lex.tokens)].type = "EOF"
                          THEN lex.tokens[Len(lex.tokens)]
                          ELSE NoToken
                   /\ error' = NoError
                   /\ pc' = "process_file"
    /\ UNCHANGED <<files, testcase, first, calls, warnings, tokens, current, program,
                   function_node, masm_code, output_file, result>>

\* the token the loop of the innermost activation looks at
AtToken == Top.i <= Len(Top.tokens) /\ Top.tokens[Top.i].type # "EOF"

\* one iteration of the loop on a token that is no include directive
ProcessToken ==
    /\ pc = "process_file"
    /\ AtToken
    /\ Top.tokens[Top.i].type # "INCLUDE"
    /\ stack' = [stack EXCEPT ![Len(stack)].result_tokens = Append(@, Top.tokens[Top.i]),
                              ![Len(stack)].i = @ + 1]
    /\ UNCHANGED <<files, testcase, first, calls, pc, loaded_files, main_eof_token, lexed, warnings,
                   tokens, current, program, function_node, masm_code, output_file,
                   result, error>>

\* the directive at Top.i is followed by a string token
HasPath == Top.i + 1 <= Len(Top.tokens) /\ Top.tokens[Top.i + 1].type = "STRING"

\* result_tokens.append(token); result_tokens.append(tokens[i + 1]); i += 2
KeepPair(token, path_token) ==
    [stack EXCEPT ![Len(stack)].result_tokens = @ \o <<token, path_token>>,
                  ![Len(stack)].i = @ + 2]

\* the FileNotFoundError is not caught
IncludeNotFound_raises(token, path_token) ==
    /\ Raise(FileNotFoundError(StripQuotes(path_token.value)))
    /\ UNCHANGED <<warnings, stack, loaded_files, lexed, main_eof_token, calls>>

\* except FileNotFoundError: a warning is printed, the directive and its path
\* stay in the result and the loop goes on
IncludeNotFound(token, path_token) ==
    /\ warnings' = Append(warnings, Warning("include not found", token))
    /\ stack' = KeepPair(token, path_token)
    /\ UNCHANGED <<loaded_files, lexed, main_eof_token, error, pc, calls>>

\* one iteration of the loop on an include directive followed by a string
ProcessInclude ==
    /\ pc = "process_file"
    /\ AtToken
    /\ Top.tokens[Top.i].type = "INCLUDE"
    /\ HasPath
    /\ LET token == Top.tokens[Top.i]
           path_token == Top.tokens[Top.i + 1]
           include_value == StripQuotes(path_token.value)
           resolved == ResolveIncludePath(files, include_value, Top.abs_path)
       IN  IF resolved.error # NoError
           THEN IncludeNotFound(token, path_token)
           ELSE IF token.value = KwInclude
           THEN /\ CallProcessFile(resolved.path, FALSE, stack)
                /\ calls' = Append(calls, resolved.path)
                /\ UNCHANGED warnings
           ELSE /\ stack' = KeepPair(token, path_token)
                /\ UNCHANGED <<warnings, loaded_files, lexed, main_eof_token, error, pc,
                               calls>>
    /\ UNCHANGED <<files, testcase, first, tokens, current, program, function_node,
                   masm_code, output_file, result>>

\* the directive without a path is passed on with a warning
IncludeWithoutPath_warns ==
    /\ pc = "process_file"
    /\ AtToken
    /\ Top.tokens[Top.i].type = "INCLUDE"
    /\ ~HasPath
    /\ warnings' = Append(warnings, Warning("include without path", Top.tokens[Top.i]))
    /\ stack' = [stack EXCEPT ![Len(stack)].result_tokens = Append(@, Top.tokens[Top.i]),
                              ![Len(stack)].i = @ + 1]
    /\ UNCHANGED <<files, testcase, first, calls, pc, error, loaded_files, main_eof_token,
                   lexed, tokens, current, program, function_node, masm_code,
                   output_file, result>>

\* one iteration of the loop on an include directive that no string follows
IncludeWithoutPath ==
    /\ pc = "process_file"
    /\ AtToken
    /\ Top.tokens[Top.i].type = "INCLUDE"
    /\ ~HasPath
    /\ Raise(SyntaxError("Expected string after include directive", <<>>,
                         Top.tokens[Top.i].line, Top.abs_path))
    /\ UNCHANGED <<files, testcase, first, calls, loaded_files, stack, main_eof_token, lexed,
                   warnings, tokens, current, program, function_node, masm_code,
                   output_file, result>>

\* an included file's activation reaches its end-of-stream token: it returns
\* its tokens, which the caller splices in place of the directive
ProcessFileReturn ==
    /\ pc = "process_file"
    /\ ~AtToken
    /\ Len(stack) > 1
    /\ LET caller == Len(stack) - 1
       IN  stack' = [SubSeq(stack, 1, caller) EXCEPT
                         ![caller].result_tokens = Splice(@, Top.result_tokens),
                         ![caller].i = @ + 2]
    /\ UNCHANGED <<files, testcase, first, calls, pc, loaded_files, main_eof_token, lexed, warnings,
                   tokens, current, program, function_node, masm_code, output_file,
                   result, error>>

\* the entry file's activation reaches its end-of-stream token:
\* process_includes appends the one end-of-stream token and returns, and
\* compile_wake_to_masm builds the Parser over the merged stream
ProcessIncludesReturn ==
    /\ pc = "process_file"
    /\ ~AtToken
    /\ Len(stack) = 1
    /\ tokens' = Append(Top.result_tokens,
                        IF main_eof_token # NoToken THEN main_eof_token
                        ELSE Token("EOF", <<>>, 1, MainFile))
    /\ stack' = <<>>
    /\ current' = 1
    /\ program' = Node("PROGRAM", NoValue)
    /\ pc' = "parse"
    /\ UNCHANGED <<files, testcase, first, calls, loaded_files, main_eof_token, lexed, warnings,
                   function_node, masm_code, output_file, result, error>>

(***************************************************************************)
(* Parser.parse: the top-level loop and the loop of parse_function         *)
(***************************************************************************)

\* the variables the parser leaves alone
ParserFrame ==
    UNCHANGED <<files, testcase, first, calls, loaded_files, stack, main_eof_token, lexed, tokens,
                masm_code, output_file, result>>

\* one iteration of the top-level loop on an include directive: the directive
\* is consumed and parse_include runs
ParseInclude ==
    /\ pc = "parse"
    /\ Check(tokens, current, "INCLUDE")
    /\ LET got == parse_include(tokens, Advance(tokens, current))
       IN  IF got.error # NoError
           THEN /\ Raise(got.error)
                /\ UNCHANGED <<current, program>>
           ELSE /\ current' = got.current
                /\ program' = IF got.node # NoNode
                              THEN [program EXCEPT !.children = Append(@, got.node)]
                              ELSE program
                /\ UNCHANGED <<pc, error>>
    /\ UNCHANGED <<function_node, warnings>>
    /\ ParserFrame

\* one iteration of the top-level loop on the function keyword: parse_function
\* runs up to the loop over the statements of the body
ParseFunctionHead ==
    /\ pc = "parse"
    /\ ~Check(tokens, current, "INCLUDE")
    /\ Check(tokens, current, "FUNCTION")
    /\ LET got == parse_function_head(tokens, Advance(tokens, current))
       IN  IF got.error # NoError
           THEN /\ Raise(got.error)
                /\ UNCHANGED <<current, function_node>>
           ELSE /\ current' = got.current
                /\ function_node' = got.node
                /\ pc' = "parse_function"
                /\ error' = error
    /\ UNCHANGED <<program, warnings>>
    /\ ParserFrame

\* the top-level loop taking a token it does not expect for fatal
SkipToken_raises ==
    /\ pc = "parse"
    /\ ~IsAtEnd(tokens, current)
    /\ ~Check(tokens, current, "INCLUDE")
    /\ ~Check(tokens, current, "FUNCTION")
    /\ Raise(SyntaxError("Unexpected token", Peek(tokens, current).value,
                        Peek(tokens, current).line, Peek(tokens, current).source_file))
    /\ UNCHANGED <<current, program, function_node, warnings>>
    /\ ParserFrame

\* the top-level loop warning about a token it does not expect and staying
\* at it
SkipToken_stays ==
    /\ pc = "parse"
    /\ ~IsAtEnd(tokens, current)
    /\ ~Check(tokens, current, "INCLUDE")
    /\ ~Check(tokens, current, "FUNCTION")
    /\ warnings' = Append(warnings, Warning("unexpected token", Peek(tokens, current)))
    /\ UNCHANGED <<current, pc, error, program, function_node>>
    /\ ParserFrame

\* one iteration of the top-level loop on any other token: it is skipped with
\* a warning
SkipToken ==
    /\ pc = "parse"
    /\ ~IsAtEnd(tokens, current)
    /\ ~Check(tokens, current, "INCLUDE")
    /\ ~Check(tokens, current, "FUNCTION")
    /\ warnings' = Append(warnings, Warning("unexpected token", Peek(tokens, current)))
    /\ current' = Advance(tokens, current)
    /\ UNCHANGED <<pc, error, program, function_node>>
    /\ ParserFrame

\* a token of the body that starts no statement is skipped with a warning
ParseFunctionStatement_warns ==
    /\ pc = "parse_function"
    /\ ~Check(tokens, current, "RIGHT_BRACE")
    /\ ~IsAtEnd(tokens, current)
    /\ LET at == SkipSemicolons(tokens, current)
       IN  IF Check(tokens, at, "IDENTIFIER")
           THEN LET got == ParseStatement(tokens, Advance(tokens, at),
                                          Peek(tokens, at).value)
                IN  IF got.error # NoError
                    THEN /\ Raise(got.error)
                         /\ UNCHANGED <<current, function_node, warnings>>
                    ELSE /\ current' = SkipSemicolons(tokens, got.current)
                         /\ function_node' =
                                [function_node EXCEPT !.children = Append(@, got.node)]
                         /\ UNCHANGED <<pc, error, warnings>>
           ELSE /\ current' = SkipSemicolons(tokens, Advance(tokens, at))
                /\ warnings' = Append(warnings, Warning("unexpected token", Peek(tokens, at)))
                /\ UNCHANGED <<function_node, pc, error>>
    /\ UNCHANGED program
    /\ ParserFrame

\* one iteration of the loop of parse_function: the semicolons before the
\* statement, the statement (or one token that starts none), the semicolons
\* after it
ParseFunctionStatement ==
    /\ pc = "parse_function"
    /\ ~Check(tokens, current, "RIGHT_BRACE")
    /\ ~IsAtEnd(tokens, current)
    /\ LET at == SkipSemicolons(tokens, current)
       IN  IF Check(tokens, at, "IDENTIFIER")
           THEN LET got == ParseStatement(tokens, Advance(tokens, at),
                                          Peek(tokens, at).value)
                IN  IF got.error # NoError
                    THEN /\ Raise(got.error)
                         /\ UNCHANGED <<current, function_node>>
                    ELSE /\ current' = SkipSemicolons(tokens, got.current)
                         /\ function_node' =
                                [function_node EXCEPT !.children = Append(@, got.node)]
                         /\ UNCHANGED <<pc, error>>
           ELSE /\ current' = SkipSemicolons(tokens, Advance(tokens, at))
                /\ UNCHANGED <<function_node, pc, error>>
    /\ UNCHANGED <<program, warnings>>
    /\ ParserFrame

\* the loop of parse_function is left: the closing brace is consumed and the
\* Function node is added to the Program
ParseFunctionEnd ==
    /\ pc = "parse_function"
    /\ Check(tokens, current, "RIGHT_BRACE") \/ IsAtEnd(tokens, current)
    /\ LET got == Consume(tokens, ParseState(current), "RIGHT_BRACE",
                          "Expected '}' after function body")
       IN  IF got.error # NoError
           THEN /\ Raise(got.error)
                /\ UNCHANGED <<current, program, function_node>>
           ELSE /\ current' = got.current
                /\ program' = [program EXCEPT !.children = Append(@, function_node)]
                /\ function_node' = NoNode
                /\ pc' = "parse"
                /\ error' = error
    /\ UNCHANGED warnings
    /\ ParserFrame

\* the top-level loop is left at the end-of-stream token: parse returns the
\* Program
ParseReturn ==
    /\ pc = "parse"
    /\ IsAtEnd(tokens, current)
    /\ pc' = "generate"
    /\ UNCHANGED <<error, current, program, function_node, warnings>>
    /\ ParserFrame

(***************************************************************************)
(* Code generation, the output file and the except clauses                 *)
(***************************************************************************)

\* the generator takes the children out of the AST while it writes their lines
Generate_consumes_ast ==
    /\ pc = "generate"
    /\ LET got == generate(program)
       IN  IF got.error # NoError
           THEN /\ Raise(got.error)
                /\ UNCHANGED masm_code
           ELSE /\ masm_code' = SomeText(got.text)
                /\ pc' = "write"
                /\ error' = error
    /\ program' = [program EXCEPT !.children = <<>>]
    /\ UNCHANGED <<files, testcase, first, calls, loaded_files, stack, main_eof_token,
                   lexed, warnings, tokens, current, function_node, output_file, result>>

\* masm_code = generator.generate(ast)
Generate ==
    /\ pc = "generate"
    /\ LET got == generate(program)
       IN  IF got.error # NoError
           THEN /\ Raise(got.error)
                /\ UNCHANGED masm_code
           ELSE /\ masm_code' = SomeText(got.text)
                /\ pc' = "write"
                /\ error' = error
    /\ UNCHANGED <<files, testcase, first, calls, loaded_files, stack, main_eof_token, lexed, warnings,
                   tokens, current, program, function_node, output_file, result>>

\* the output file is written and compile_wake_to_masm returns True
WriteOutput ==
    /\ pc = "write"
    /\ output_file' = SomeText(masm_code.text)
    /\ result' = "True"
    /\ pc' = "returned"
    /\ UNCHANGED <<files, testcase, first, calls, loaded_files, stack, main_eof_token, lexed, warnings,
                   tokens, current, program, function_node, masm_code, error>>

\* the output file is opened for writing before the stages run, so that a
\* failed call leaves an empty file
Except_leaves_file ==
    /\ pc = "raised"
    /\ result' = "False"
    /\ output_file' = SomeText(<<>>)
    /\ pc' = "returned"
    /\ UNCHANGED <<files, testcase, first, calls, loaded_files, stack, main_eof_token,
                   lexed, warnings, tokens, current, program, function_node, masm_code,
                   error>>

\* the except clauses of compile_wake_to_masm: the error is printed and the
\* call returns False
Except ==
    /\ pc = "raised"
    /\ result' = "False"
    /\ pc' = "returned"
    /\ UNCHANGED <<files, testcase, first, calls, loaded_files, stack, main_eof_token, lexed, warnings,
                   tokens, current, program, function_node, masm_code, output_file,
                   error>>

(***************************************************************************)
(* The compiler is run again on an edited entry file                       *)
(***************************************************************************)

\* the line holds one #include directive and its path, and nothing else
IsIncludeLine(line) ==
    LET lex == Tokenize(line, MainFile)
    IN  /\ lex.error = NoError
        /\ Len(lex.tokens) = 3
        /\ lex.tokens[1].type = "INCLUDE"
        /\ lex.tokens[1].value = KwInclude
        /\ lex.tokens[2].type = "STRING"

\* the file the directive of an include line of the entry file resolves to
IncludedFile(fs, line) ==
    ResolveIncludePath(fs, StripQuotes(Tokenize(line, MainFile).tokens[2].value), MainFile)

\* the include lines of the entry file whose file exists and is another file
PasteLines(fs) ==
    {k \in 1..Len(fs[MainFile]) :
        /\ IsIncludeLine(fs[MainFile][k])
        /\ IncludedFile(fs, fs[MainFile][k]).error = NoError
        /\ IncludedFile(fs, fs[MainFile][k]).path # MainFile}

\* after the first run the first such line of the entry file is replaced by
\* the lines of the file it includes, and the compiler is called again; what
\* the first run produced is remembered
Paste ==
    /\ pc = "returned"
    /\ ~first.done
    /\ PasteLines(files) # {}
    /\ LET k == CHOOSE j \in PasteLines(files) : \A m \in PasteLines(files) : j <= m
           entry == files[MainFile]
           f == IncludedFile(files, entry[k]).path
       IN  /\ files' = [files EXCEPT ![MainFile] =
                            SubSeq(entry, 1, k - 1) \o files[f]
                                \o SubSeq(entry, k + 1, Len(entry))]
           /\ first' = [done |-> TRUE, file |-> f, tokens |-> tokens,
                        program |-> program, masm_code |-> masm_code,
                        output_file |-> output_file, result |-> result,
                        calls |-> calls, lexed |-> lexed]
    /\ testcase' = [testcase EXCEPT !.family = "pasted"]
    /\ pc' = "start"
    /\ loaded_files' = {}
    /\ stack' = <<>>
    /\ main_eof_token' = NoToken
    /\ lexed' = <<>>
    /\ warnings' = <<>>
    /\ tokens' = <<>>
    /\ current' = 1
    /\ program' = Node("PROGRAM", NoValue)
    /\ function_node' = NoNode
    /\ masm_code' = NoText
    /\ output_file' = NoText
    /\ result' = "pending"
    /\ error' = NoError
    /\ calls' = <<>>

\* the files on disk are as they were and process_includes is called a second
\* time on the same FileLoader, with the same entry file: loaded_files is as
\* the first call left it; what the first call returned is remembered, and
\* the second stream is compiled as the first was
ProcessIncludesAgain ==
    /\ pc = "returned"
    /\ ~first.done
    /\ testcase.family = "includes"
    /\ first' = [done |-> TRUE, file |-> NoFile, tokens |-> tokens,
                 program |-> program, masm_code |-> masm_code,
                 output_file |-> output_file, result |-> result,
                 calls |-> calls, lexed |-> lexed]
    /\ testcase' = [testcase EXCEPT !.family = "again"]
    /\ pc' = "start"
    /\ stack' = <<>>
    /\ main_eof_token' = NoToken
    /\ lexed' = <<>>
    /\ warnings' = <<>>
    /\ tokens' = <<>>
    /\ current' = 1
    /\ program' = Node("PROGRAM", NoValue)
    /\ function_node' = NoNode
    /\ masm_code' = NoText
    /\ result' = "pending"
    /\ error' = NoError
    /\ calls' = <<>>
    /\ output_file' = NoText
    /\ UNCHANGED <<files, loaded_files>>

Next ==
    \/ ProcessIncludes
    \/ ProcessToken
    \/ ProcessInclude
    \/ IncludeWithoutPath
    \/ ProcessFileReturn
    \/ ProcessIncludesReturn
    \/ ParseInclude
    \/ ParseFunctionHead
    \/ SkipToken
    \/ ParseFunctionStatement
    \/ ParseFunctionEnd
    \/ ParseReturn
    \/ Generate
    \/ WriteOutput
    \/ Except
    \/ Paste
    \/ ProcessIncludesAgain

Spec == Init /\ [][Next]_vars

(***************************************************************************)
(* Properties of include processing                                        *)
(***************************************************************************)

\* the tokens of a stream that come from one file, in order
FromFile(stream, path) == SelectSeq(stream, LAMBDA t : t.source_file = path)

\* the token at position i of a file's tokens is an #include directive whose
\* path resolves, from that file, to an existing file
ResolvesAt(fs, path, toks, i) ==
    /\ toks[i].type = "INCLUDE"
    /\ toks[i].value = KwInclude
    /\ i + 1 <= Len(toks)
    /\ toks[i + 1].type = "STRING"
    /\ ResolveIncludePath(fs, StripQuotes(toks[i + 1].value), path).error = NoError

\* a file's tokens from position i on, without its end-of-stream token and
\* without the #include directives (and their paths) that resolve to a file
RECURSIVE Kept(_, _, _, _)
Kept(fs, path, toks, i) ==
    IF i > Len(toks) \/ toks[i].type = "EOF" THEN <<>>
    ELSE IF ResolvesAt(fs, path, toks, i) THEN Kept(fs, path, toks, i + 2)
    ELSE <<toks[i]>> \o Kept(fs, path, toks, i + 1)

\* the tokens a file itself contributes to a merged stream
OwnTokens(fs, path) == Kept(fs, path, Tokenize(LoadFile(fs, path), path).tokens, 1)

\* how often x occurs in a sequence
Count(seq, x) == Cardinality({k \in 1..Len(seq) : seq[k] = x})

\* the files process_file has not visited yet
Unvisited == Cardinality(DOMAIN files \ loaded_files)

\* the tokens the activations of process_file from the k-th on have not
\* passed yet, the end-of-stream token of each file included
RECURSIVE Unread(_)
Unread(k) ==
    IF k > Len(stack) THEN 0
    ELSE (Len(stack[k].tokens) + 1 - stack[k].i) + Unread(k + 1)

\* a step of the loops of process_file that stays in process_includes visits
\* a new file or, visiting none, leaves fewer tokens to pass: no run takes
\* infinitely many such steps
IncludeStepDecreases ==
    (pc = "process_file" /\ pc' = "process_file")
    => \/ Unvisited' < Unvisited
       \/ Unvisited' = Unvisited /\ Unread(1)' < Unread(1)

\* while process_includes runs there is an activation of process_file, whose
\* loop has a next step; the activations never nest deeper than there are
\* files, no file is tokenized twice, and in the stream process_includes
\* returns the entry file's own tokens stand exactly once and every other
\* file's own tokens at most once
EntryExactlyOnce ==
    /\ pc = "process_file" =>
          /\ 1 <= Len(stack) /\ Len(stack) <= Cardinality(DOMAIN files)
          /\ \A k \in 1..Len(stack) : 1 <= stack[k].i /\ stack[k].i <= Len(stack[k].tokens)
    /\ Unread(1) >= 0
    /\ \A p \in DOMAIN files : Count(lexed, p) <= 1
    /\ tokens # <<>> =>
          /\ FromFile(tokens, MainFile)
                = OwnTokens(files, MainFile) \o <<tokens[Len(tokens)]>>
          /\ \A p \in DOMAIN files \ {MainFile} :
                FromFile(tokens, p) \in {<<>>, OwnTokens(files, p)}

\* C1: whatever graph the #include directives of the files form (cycles and
\* a file including itself too), process_includes terminates: every step of
\* it lowers a measure that is a pair of natural numbers, so it returns the
\* merged stream or raises after finitely many steps. The entry file's tokens
\* stand exactly once in the merged stream: a directive that resolves to a
\* visited file contributes no token.
C1_IncludeCyclesTerminate ==
    /\ []EntryExactlyOnce
    /\ [][IncludeStepDecreases]_vars

\* the entry file includes b.wake, which includes the entry file again: the
\* second directive called process_file on the visited entry file, which was
\* not tokenized again, and the compilation went through
C1_CycleVisited ==
    /\ pc = "returned"
    /\ result = "True"
    /\ ~first.done
    /\ calls = <<FileB, MainFile>>
    /\ lexed = <<MainFile, FileB>>
    /\ FromFile(tokens, FileB) # <<>>

\* the kinds and lexemes of a stream, in order
Kinds(stream) == [k \in 1..Len(stream) |-> <<stream[k].type, stream[k].value>>]

\* the run on the edited entry file ended as the first run did: the same
\* result, the same kinds and lexemes of tokens, the same Program and the same
\* generated and written text
SameOutcome ==
    /\ result = first.result
    /\ Kinds(tokens) = Kinds(first.tokens)
    /\ program = first.program
    /\ masm_code = first.masm_code
    /\ output_file = first.output_file

\* the first run reached the directive of the entry file that resolves to
\* first.file, no file but the entry file having been visited before, and the
\* second run, on the entry file with the content of first.file pasted in
\* place of that directive, has returned
PastedRunDone ==
    /\ first.done
    /\ first.calls # <<>>
    /\ first.calls[1] = first.file
    /\ pc = "returned"

\* every #include path written in file f resolves from the entry file as it
\* does from f
SameResolution(fs, f) ==
    LET toks == Tokenize(LoadFile(fs, f), f).tokens
    IN  \A i \in 1..Len(toks) :
            (/\ toks[i].type = "INCLUDE"
             /\ toks[i].value = KwInclude
             /\ i + 1 <= Len(toks)
             /\ toks[i + 1].type = "STRING")
            => ResolveIncludePath(fs, StripQuotes(toks[i + 1].value), f)
                 = ResolveIncludePath(fs, StripQuotes(toks[i + 1].value), MainFile)

\* every include directive of file f is followed by its path string
DirectivesHavePaths(fs, f) ==
    LET toks == Tokenize(LoadFile(fs, f), f).tokens
    IN  \A i \in 1..Len(toks) :
            toks[i].type = "INCLUDE" => (i + 1 <= Len(toks) /\ toks[i + 1].type = "STRING")

UpperChar(c) ==
    IF \E u \in Letters : u # c /\ LowerChar(u) = c
    THEN CHOOSE u \in Letters : u # c /\ LowerChar(u) = c
    ELSE c

Upper(s) == [k \in 1..Len(s) |-> UpperChar(s[k])]

\* the kinds of tokens the operands of a statement were written as
ArgKinds(s) == [k \in 1..Len(s.args) |-> s.args[k].kind]

\* a statement of the grammar of section 4.3, one case per shape
ValidStmt(s) ==
    LET kinds == ArgKinds(s)
        value == {"IDENTIFIER", "NUMBER"}
        target == {"IDENTIFIER", "STRING"}
    IN  CASE s.name \in BinaryNames ->
                Len(kinds) = 2 /\ kinds[1] \in value /\ kinds[2] \in value
          [] s.name \in UnaryNames -> Len(kinds) = 1 /\ kinds[1] \in value
          [] s.name \in ConditionalJumpNames ->
                Len(kinds) = 2 /\ kinds[1] \in target /\ kinds[2] \in target
          [] s.name = Nm_jmp -> Len(kinds) = 1 /\ kinds[1] \in target
          [] s.name = Nm_call -> kinds = <<"STRING">>
          [] s.name = Nm_db ->
                /\ kinds = <<"IDENTIFIER", "STRING">>
                /\ StartsWith(s.args[1].text, 1, <<"$">>)
          [] s.name \in NoOperandNames -> kinds = <<>>
          [] s.name \in OutNames ->
                Len(kinds) = 2 /\ kinds[1] \in value /\ kinds[2] = "IDENTIFIER"
          [] OTHER -> FALSE

\* the output line of a valid statement by the table of section 4.4; the
\* name of a call is taken with its quotes (quoted_call) or without them
ExpectedLine(s, quoted_call) ==
    LET mnemonic == Upper(s.name)
        arg(k) == s.args[k].text
        four == <<" ", " ", " ", " ">>
    IN  CASE s.name \in BinaryNames \cup OutNames ->
                four \o mnemonic \o <<" ">> \o arg(1) \o <<" ">> \o arg(2)
          [] s.name \in UnaryNames -> four \o mnemonic \o <<" ">> \o arg(1)
          [] s.name \in ConditionalJumpNames ->
                four \o mnemonic \o <<" ", "#">> \o Unquote(arg(1))
                     \o <<" ", "#">> \o Unquote(arg(2))
          [] s.name = Nm_jmp -> four \o mnemonic \o <<" ", "#">> \o Unquote(arg(1))
          [] s.name = Nm_call ->
                four \o mnemonic \o <<" ", "#">>
                     \o (IF quoted_call THEN arg(1) ELSE Unquote(arg(1)))
          [] s.name = Nm_db ->
                four \o mnemonic \o <<" ">> \o arg(1) \o <<" ">> \o arg(2)
          [] s.name \in NoOperandNames -> mnemonic

LabelMain == <<"L", "B", "L", " ", "m", "a", "i", "n">>

\* the text expected for a function main made of the statements
ExpectedText(stmts, quoted_call) ==
    JoinLines(<<LabelMain>>
              \o [k \in 1..Len(stmts) |-> ExpectedLine(stmts[k], quoted_call)]
              \o << <<>> >>)

\* the compile call on a function main made of valid statements has returned
ValidStatementsCompiled ==
    /\ testcase.family = "statements"
    /\ pc = "returned"
    /\ \A k \in 1..Len(testcase.stmts) : ValidStmt(testcase.stmts[k])

\* C3: for every instruction kind and every valid statement of that kind
\* inside a function, parsing then generating yields exactly one output line:
\* the upper-case mnemonic followed by the operands in the order written, in
\* the format of the table of section 4.4.
C3_RoundTripTable ==
    ValidStatementsCompiled =>
        /\ result = "True"
        /\ \E quoted_call \in BOOLEAN :
              output_file = SomeText(ExpectedText(testcase.stmts, quoted_call))

\* the fields of Node.value a node of the type declares; the one operand of a
\* single-operand node is the value itself
DeclaredFields(type) ==
    CASE type \in {"MOV"} \cup BinaryTypes -> {"dest", "src"}
      [] type = "DB" -> {"address", "string"}
      [] type \in ConditionalJumpTypes -> {"true", "false"}
      [] type \in OutTypes -> {"port", "value"}
      [] type \in {"CALL", "JMP", "FUNCTION"} \cup UnaryTypes -> {"string"}
      [] type \in {"HLT", "RET", "PROGRAM"} -> {"none"}
      [] type = "INCLUDE" -> {"directive", "path"}

\* C4: on every AST the parser returns the generator returns text without
\* failing: every instruction node carries exactly the fields its variant
\* declares, so no field the generator reads is missing.
C4_GenerateNeverFails ==
    /\ error.type # "KeyError"
    /\ \A f \in 1..Len(program.children) :
          /\ DOMAIN program.children[f].value = DeclaredFields(program.children[f].type)
          /\ \A k \in 1..Len(program.children[f].children) :
                LET statement == program.children[f].children[k]
                IN  DOMAIN statement.value = DeclaredFields(statement.type)

\* the compile call on one of the fixed texts has returned
ScenarioCompiled(id) ==
    /\ testcase.family = "scenario"
    /\ testcase.entry = <<id>>
    /\ pc = "returned"

\* C5 as stated: compiling `void main() { mov(r1, 5); add(r1, r1, 2); hlt(); }`
\* succeeds and generates the lines LBL main, MOV r1 5, ADD r1 r1 2 (both
\* indented by four spaces), HLT and one empty line.
C5_ThreeOperandAddCompiles ==
    ScenarioCompiled("AddThreeOperands") =>
        /\ result = "True"
        /\ output_file = SomeText(JoinLines(<<
              <<"L", "B", "L", " ", "m", "a", "i", "n">>,
              <<" ", " ", " ", " ", "M", "O", "V", " ", "r", "1", " ", "5">>,
              <<" ", " ", " ", " ", "A", "D", "D", " ", "r", "1", " ", "r", "1", " ", "2">>,
              <<"H", "L", "T">>,
              <<>> >>))

\* C5, amended: compiling that input fails with the structural error
\* "Expected ')' after arguments" at the add statement, on line 1, and writes
\* nothing; with the statement written add(r1, 2) the call succeeds and
\* generates LBL main, MOV r1 5, ADD r1 2 (both indented by four spaces), HLT
\* and one empty line.
C5_TwoOperandAddCompiles ==
    /\ ScenarioCompiled("AddThreeOperands") =>
          /\ result = "False"
          /\ error.type = "SyntaxError"
          /\ error.message = "Expected ')' after arguments"
          /\ error.line = 1
          /\ program.children = <<>>
          /\ function_node.children = <<Node("MOV", [dest |-> LxR1, src |-> LxFive])>>
          /\ ~output_file.present
    /\ ScenarioCompiled("AddTwoOperands") =>
          /\ result = "True"
          /\ output_file = SomeText(JoinLines(<<
                <<"L", "B", "L", " ", "m", "a", "i", "n">>,
                <<" ", " ", " ", " ", "M", "O", "V", " ", "r", "1", " ", "5">>,
                <<" ", " ", " ", " ", "A", "D", "D", " ", "r", "1", " ", "2">>,
                <<"H", "L", "T">>,
                <<>> >>))

\* the three-operand input was compiled: the call returned False
C5_ThreeOperandAddRejected ==
    /\ ScenarioCompiled("AddThreeOperands")
    /\ result = "False"
    /\ error.type = "SyntaxError"

(***************************************************************************)
(* Properties of the directives process_includes passes through            *)
(***************************************************************************)

IsMacroInclude(t) == t.type = "INCLUDE" /\ t.value = KwMInclude

\* the positions of the directives of a kind that are followed by a string
PairsOf(stream, directive) ==
    {k \in 1..(Len(stream) - 1) :
        /\ stream[k].type = "INCLUDE" /\ stream[k].value = directive
        /\ stream[k + 1].type = "STRING"}

\* the first closing brace of a stream from position k on, the position
\* behind the stream when there is none
RECURSIVE ClosingBrace(_, _)
ClosingBrace(stream, k) ==
    IF k > Len(stream) \/ stream[k].type = "RIGHT_BRACE" THEN k
    ELSE ClosingBrace(stream, k + 1)

\* the positions, from k on, of the tokens that stand inside function bodies,
\* k being at top level: a body runs from the brace that follows `void name ()`
\* to the first closing brace
RECURSIVE BodyPositions(_, _)
BodyPositions(stream, k) ==
    IF k > Len(stream) THEN {}
    ELSE IF /\ stream[k].type = "FUNCTION"
            /\ k + 4 <= Len(stream)
            /\ [n \in 1..4 |-> stream[k + n].type]
                  = <<"IDENTIFIER", "LEFT_PAREN", "RIGHT_PAREN", "LEFT_BRACE">>
    THEN ((k + 5)..(ClosingBrace(stream, k + 5) - 1))
            \cup BodyPositions(stream, ClosingBrace(stream, k + 5) + 1)
    ELSE IF k \in PairsOf(stream, KwInclude) \cup PairsOf(stream, KwMInclude)
    THEN BodyPositions(stream, k + 2)
    ELSE BodyPositions(stream, k + 1)

\* the positions of the top-level declarations of a stream: the #M_include
\* directives and the function keywords that stand in no function body
DeclarationPositions(stream) ==
    {k \in 1..Len(stream) : IsMacroInclude(stream[k]) \/ stream[k].type = "FUNCTION"}
        \ BodyPositions(stream, 1)

\* the position of the j-th declaration
Declaration(stream, j) ==
    CHOOSE k \in DeclarationPositions(stream) :
        Cardinality({m \in DeclarationPositions(stream) : m < k}) = j - 1

\* the lines expected for the j-th child of the program: for an include node
\* the one line `#include "p"` with the path as the directive's string token
\* holds it, for a function the lines of the function
DeclarationLines(stream, children, j) ==
    IF IsMacroInclude(stream[Declaration(stream, j)])
    THEN <<KwInclude \o <<" ">> \o stream[Declaration(stream, j) + 1].value>>
    ELSE generate_function(children[j]).output

\* every #M_include pair of a tokenized file stands unchanged and adjacent in
\* the merged stream
MacroPairsKept ==
    \A p \in {lexed[k] : k \in 1..Len(lexed)} :
        LET own == Tokenize(LoadFile(files, p), p).tokens
        IN  \A i \in 1..Len(own) :
                IsMacroInclude(own[i]) =>
                    \E k \in 1..(Len(tokens) - 1) :
                        tokens[k] = own[i] /\ tokens[k + 1] = own[i + 1]

\* the files the #M_include directives of the merged stream name
MacroIncluded ==
    {ResolveIncludePath(files, StripQuotes(tokens[k + 1].value), tokens[k].source_file).path :
        k \in {j \in 1..(Len(tokens) - 1) : IsMacroInclude(tokens[j])}}

\* C6: a top-level `#M_include "p"` of the entry file or of an inlined file
\* is passed through: process_includes leaves the directive token and its
\* string token unchanged and adjacent in the merged stream and splices no
\* token of p; the parser builds one include node whose path is the string
\* lexeme with its quotes; the generated text has the line `#include "p"` at
\* the directive's position among the top-level declarations.
C6_MacroIncludePassThrough ==
    tokens # <<>> =>
        /\ MacroPairsKept
        /\ \A k \in 1..Len(tokens) :
              IsMacroInclude(tokens[k]) =>
                  /\ tokens[k + 1].type = "STRING"
                  /\ tokens[k + 1].source_file = tokens[k].source_file
        /\ \A p \in MacroIncluded \ {calls[k] : k \in 1..Len(calls)} :
              p \notin {lexed[k] : k \in 1..Len(lexed)} /\ FromFile(tokens, p) = <<>>
        /\ (pc \in {"generate", "write", "returned"} /\ error.type # "SyntaxError") =>
              /\ Len(program.children) = Cardinality(DeclarationPositions(tokens))
              /\ \A j \in 1..Len(program.children) :
                    IF IsMacroInclude(tokens[Declaration(tokens, j)])
                    THEN program.children[j]
                            = Node("INCLUDE",
                                   [directive |-> KwMInclude,
                                    path |-> tokens[Declaration(tokens, j) + 1].value])
                    ELSE program.children[j].type = "FUNCTION"
        /\ masm_code.present =>
              masm_code.text
                 = JoinLines(Flatten([j \in 1..Len(program.children) |->
                                         DeclarationLines(tokens, program.children, j)]))

\* a compilation wrote its output; the entry file holds `#M_include "x.inc"`
\* after a function, x.inc exists, and no token of it is in the stream
C6_MacroIncludeWritten ==
    /\ pc = "returned" /\ result = "True"
    /\ FileX \in DOMAIN files
    /\ FileX \in MacroIncluded
    /\ Len(program.children) = 2
    /\ program.children[1].type = "FUNCTION"
    /\ program.children[2].type = "INCLUDE"
    /\ FromFile(tokens, FileX) = <<>>

\* the warnings process_includes gave
IncludeWarnings == SelectSeq(warnings, LAMBDA w : w.kind = "include not found")

\* the loop of process_file stands at an include directive followed by a
\* string whose path resolves to no file
AtUnresolvedInclude ==
    /\ pc = "process_file"
    /\ AtToken
    /\ Top.tokens[Top.i].type = "INCLUDE"
    /\ HasPath
    /\ ResolveIncludePath(files, StripQuotes(Top.tokens[Top.i + 1].value),
                          Top.abs_path).error # NoError

\* the step from such a state: one warning for the directive, the directive
\* and its string appended unchanged, the loop goes on after the pair
UnresolvedIsWarning ==
    AtUnresolvedInclude =>
        /\ pc' = "process_file"
        /\ error' = NoError
        /\ warnings' = Append(warnings, Warning("include not found", Top.tokens[Top.i]))
        /\ Len(stack') = Len(stack)
        /\ stack'[Len(stack)].result_tokens
              = Top.result_tokens \o <<Top.tokens[Top.i], Top.tokens[Top.i + 1]>>
        /\ stack'[Len(stack)].i = Top.i + 2
        /\ lexed' = lexed

\* no failed path resolution aborts the compilation, and in the merged stream
\* every directive a warning was given for stands with its string after it
WarnedPairsKept ==
    /\ error.type # "FileNotFoundError"
    /\ tokens # <<>> =>
          \A w \in 1..Len(IncludeWarnings) :
              \E k \in 1..(Len(tokens) - 1) :
                  /\ tokens[k] = IncludeWarnings[w].token
                  /\ tokens[k + 1].type = "STRING"
                  /\ tokens[k + 1].source_file = tokens[k].source_file
    /\ (pc = "returned" /\ error = NoError) => result = "True" /\ output_file.present

\* C7: an `#include "p"` whose path resolves to no file is no fatal error:
\* process_includes emits a warning, passes the directive and its string
\* through unchanged and goes on, and the compilation completes with output.
C7_UnresolvedIncludeIsWarning ==
    /\ []WarnedPairsKept
    /\ [][UnresolvedIsWarning]_vars

\* a compilation that warned about `#include "m"` wrote its output
C7_WarnedAndWritten ==
    /\ pc = "returned" /\ result = "True" /\ output_file.present
    /\ \E w \in 1..Len(warnings) :
          /\ warnings[w].kind = "include not found"
          /\ warnings[w].token.value = KwInclude
    /\ \E f \in 1..Len(program.children) : program.children[f].type = "FUNCTION"

(***************************************************************************)
(* Properties of the end of the merged stream                              *)
(***************************************************************************)

\* the number of the last line of a text: one more than its line breaks
FinalLine(source) == 1 + Cardinality({k \in 1..Len(source) : source[k] = "\n"})

EndOfStreamPositions(stream) == {k \in 1..Len(stream) : stream[k].type = "EOF"}

\* C8: the stream process_includes returns holds exactly one end-of-stream
\* token, as its last token, with the entry file's identifier and the entry
\* file's final line number; the end-of-stream tokens of the included files
\* are dropped when their tokens are spliced.
C8_OneEndOfStream ==
    tokens # <<>> =>
        /\ EndOfStreamPositions(tokens) = {Len(tokens)}
        /\ tokens[Len(tokens)].source_file = MainFile
        /\ tokens[Len(tokens)].line = FinalLine(LoadFile(files, MainFile))

(***************************************************************************)
(* Properties of failures                                                  *)
(***************************************************************************)

\* the loop of process_file stands at an include directive that no string
\* token follows
AtDirectiveWithoutPath ==
    /\ pc = "process_file"
    /\ AtToken
    /\ Top.tokens[Top.i].type = "INCLUDE"
    /\ ~(Top.i + 1 <= Len(Top.tokens) /\ Top.tokens[Top.i + 1].type = "STRING")

\* the step from such a state raises the structural error, at the directive's
\* line in its file; no warning is given and no stream is returned
DirectiveWithoutPathIsFatal ==
    AtDirectiveWithoutPath =>
        /\ pc' = "raised"
        /\ error'.type = "SyntaxError"
        /\ error'.message = "Expected string after include directive"
        /\ error'.line = Top.tokens[Top.i].line
        /\ error'.source_file = Top.abs_path
        /\ warnings' = warnings
        /\ tokens' = <<>>

\* once raised, the error is never turned into a merged stream; a returned
\* stream comes only from files whose directives all have their path; every
\* warning of process_includes is for a directive that has its path
NoStreamWithoutPath ==
    /\ (error.type = "SyntaxError"
          /\ error.message = "Expected string after include directive") =>
            /\ tokens = <<>>
            /\ pc \in {"raised", "returned"}
            /\ pc = "returned" => result = "False" /\ ~output_file.present
    /\ tokens # <<>> =>
          \A k \in 1..Len(lexed) : DirectivesHavePaths(files, lexed[k])
    /\ \A w \in 1..Len(IncludeWarnings) :
          LET t == IncludeWarnings[w].token
              own == Tokenize(LoadFile(files, t.source_file), t.source_file).tokens
          IN  \E i \in 1..(Len(own) - 1) : own[i] = t /\ own[i + 1].type = "STRING"

\* C9: an include directive, of either kind and in any file, that no string
\* token follows is a fatal structural error of process_includes: it is
\* never downgraded to a warning and no merged stream is returned.
C9_DirectiveWithoutPathIsFatal ==
    /\ []NoStreamWithoutPath
    /\ [][DirectiveWithoutPathIsFatal]_vars

\* the compilation failed on the `#M_include` without a path that ends the
\* included file b.wake
C9_FailedInIncludedFile ==
    /\ pc = "returned" /\ result = "False"
    /\ error.type = "SyntaxError"
    /\ error.message = "Expected string after include directive"
    /\ error.source_file = FileB
    /\ lexed = <<MainFile, FileB>>

\* C10: compile_wake_to_masm returns False and writes nothing when a stage
\* (lexing and include processing, parsing, generation) fails; the output
\* file is written only after all stages succeeded, with the generated text,
\* and success is reported only when the file was written.
C10_OutputOnlyOnSuccess ==
    /\ result \in {"pending", "True", "False"}
    /\ pc = "returned" <=> result # "pending"
    /\ pc = "returned" => (result = "False" <=> error # NoError)
    /\ result = "True" <=> output_file.present
    /\ output_file.present =>
          /\ error = NoError
          /\ tokens # <<>>
          /\ masm_code.present
          /\ masm_code = SomeText(generate(program).text)
          /\ output_file = masm_code
    /\ result = "False" => ~output_file.present

\* a compilation failed in the parser, after include processing returned its
\* stream: it returned False and wrote nothing
C10_ParserFailed ==
    /\ pc = "returned" /\ result = "False"
    /\ tokens # <<>>
    /\ error.type = "SyntaxError"
    /\ ~masm_code.present /\ ~output_file.present

(***************************************************************************)
(* Properties of single statements                                         *)
(***************************************************************************)

\* the parser is done with the function main of a generated entry file whose
\* first statement is s: it returned the program or raised
FirstStatementParsed ==
    /\ testcase.family = "statements"
    /\ testcase.stmts # <<>>
    /\ tokens # <<>>
    /\ pc \in {"generate", "write", "raised", "returned"}

\* the operand an Output node stores second, under whichever key
SecondOperand(node) ==
    IF "value" \in DOMAIN node.value THEN node.value.value ELSE node.value.arg2

\* C11: out(port, value) and cout(port, value) with a string literal as the
\* second operand parse successfully and store the string without its quotes;
\* an identifier as the second operand is stored unchanged.
C11_OutTakesString ==
    (/\ FirstStatementParsed
     /\ testcase.stmts[1].name \in OutNames
     /\ ArgKinds(testcase.stmts[1]) \in {<<"NUMBER", "STRING">>, <<"NUMBER", "IDENTIFIER">>})
    => /\ error.type # "SyntaxError"
       /\ Len(program.children) = 1
       /\ program.children[1].children # <<>>
       /\ program.children[1].children[1].type
             = InstructionNodeType(testcase.stmts[1].name)
       /\ SecondOperand(program.children[1].children[1])
             = Unquote(testcase.stmts[1].args[2].text)

(***************************************************************************)
(* Properties of the generator                                             *)
(***************************************************************************)

\* the call generator.generate(ast) of compile_wake_to_masm leaves the AST as
\* it was, and the text it returned is the text a second call on that AST
\* returns
GenerateIsPure ==
    pc = "generate" =>
        /\ program' = program
        /\ tokens' = tokens /\ files' = files /\ output_file' = output_file
        /\ masm_code'.present => masm_code'.text = generate(program').text
        /\ ~masm_code'.present => generate(program').error = error'

LexedFiles == {lexed[k] : k \in 1..Len(lexed)}

\* the file tokenized last: every tokenized file is so in some state
LastLexed == lexed[Len(lexed)]

SourceOf(path) == LoadFile(files, path)

TokensOf(path) == Tokenize(SourceOf(path), path).tokens

\* where the lexemes of the tokens from the k-th on stand in a source from
\* position pos on, when the source is these lexemes in order with nothing
\* between them but whitespace, comments and, if strays is TRUE, # characters
\* that start no directive: [ok, starts], ok being FALSE when the source is
\* not laid out so
RECURSIVE Layout(_, _, _, _, _)
Layout(source, toks, pos, k, strays) ==
    IF k <= Len(toks) /\ toks[k].type # "EOF" /\ toks[k].value # <<>>
          /\ StartsWith(source, pos, toks[k].value)
    THEN LET rest == Layout(source, toks, pos + Len(toks[k].value), k + 1, strays)
         IN  [ok |-> rest.ok, starts |-> <<pos>> \o rest.starts]
    ELSE IF pos > Len(source)
    THEN [ok |-> k > Len(toks) \/ toks[k].type = "EOF", starts |-> <<>>]
    ELSE IF source[pos] \in Whitespace
    THEN Layout(source, toks, pos + 1, k, strays)
    ELSE IF source[pos] = "/" /\ pos + 1 <= Len(source) /\ source[pos + 1] = "/"
    THEN Layout(source, toks,
                IF \E n \in pos..Len(source) : source[n] = "\n"
                THEN CHOOSE n \in pos..Len(source) :
                        source[n] = "\n" /\ \A m \in pos..(n - 1) : source[m] # "\n"
                ELSE Len(source) + 1,
                k, strays)
    ELSE IF strays /\ source[pos] = "#"
    THEN Layout(source, toks, pos + 1, k, strays)
    ELSE [ok |-> FALSE, starts |-> <<>>]

\* C13 as stated: in every source the lexer accepts, every character that is
\* neither whitespace between tokens nor part of a // comment belongs to the
\* lexeme of exactly one token: the lexemes in order are the source without
\* that whitespace and those comments.
C13_NoCharacterDropped ==
    lexed # <<>> =>
        LET source == SourceOf(LastLexed)
            toks == TokensOf(LastLexed)
        IN  /\ Len(source) >= 0 /\ Len(toks) >= 1
            /\ Layout(source, toks, 1, 1, FALSE).ok

\* C13, amended: the same, with one more exception: a # that starts neither
\* #M_include nor #include is consumed and gives no token.
C13_OnlyStrayHashDropped ==
    lexed # <<>> =>
        LET source == SourceOf(LastLexed)
            toks == TokensOf(LastLexed)
        IN  /\ Len(source) >= 0 /\ toks[Len(toks)].type = "EOF"
            /\ Layout(source, toks, 1, 1, TRUE).ok
            /\ \A k \in 1..(Len(toks) - 1) : toks[k].type # "EOF" /\ toks[k].value # <<>>

\* the lexer accepted a source with a comment and, on the line after it, #
\* characters that start no directive: the stream holds r1, x, 5 and the end
C13_StrayAndCommentLexed ==
    /\ testcase.family = "sources"
    /\ testcase.entry = <<"Comment", "Stray">>
    /\ MainFile \in LexedFiles
    /\ Len(tokens) = 4

\* C14: inside a function, db($N, "s") with N one or more digits parses to a
\* DefineBytes node whose address is N without the $ and whose string keeps
\* its quotes, and generates the indented line `DB $N "s"`; with a bare $ the
\* stored address is the empty string; an address that does not begin with $
\* is a fatal syntax error.
C14_DefineBytes ==
    (/\ FirstStatementParsed
     /\ testcase.stmts[1].name = Nm_db
     /\ \A k \in 2..Len(testcase.stmts) : ValidStmt(testcase.stmts[k])) =>
        LET address == testcase.stmts[1].args[1].text
            string == testcase.stmts[1].args[2].text
            line == <<" ", " ", " ", " ", "D", "B", " ">> \o address \o <<" ">> \o string
        IN  IF address[1] = "$"
            THEN /\ error = NoError
                 /\ program.children[1].children[1]
                       = Node("DB", [address |-> SubSeq(address, 2, Len(address)),
                                     string |-> string])
                 /\ masm_code.present =>
                       /\ generate_function(program.children[1]).output[2] = line
                       /\ masm_code.text = ExpectedText(testcase.stmts, TRUE)
                 /\ pc = "returned" => result = "True"
            ELSE /\ error.type = "SyntaxError"
                 /\ error.message = "Address in db statement must start with $"
                 /\ program.children = <<>>
                 /\ ~masm_code.present /\ ~output_file.present
                 /\ pc = "returned" => result = "False"

\* db($10, "hi") was compiled and its line written
C14_DefineBytesWritten ==
    /\ FirstStatementParsed
    /\ testcase.stmts[1].name = Nm_db
    /\ testcase.stmts[1].args[1].text = LxAddr10
    /\ pc = "returned" /\ result = "True" /\ output_file.present

\* how many digits follow position start of a source
DigitRun(source, start) ==
    CHOOSE n \in 0..(Len(source) - start) :
        /\ \A j \in 1..n : source[start + j] \in Digits
        /\ start + n + 1 > Len(source) \/ source[start + n + 1] \notin Digits

\* C15: at a scan position holding $ the lexer emits exactly one identifier
\* token: $ plus all the digits that follow when a digit follows ($7 is one
\* token), the single character $ when none follows, and then only that
\* character is consumed.
C15_AddressLiteral ==
    lexed # <<>> =>
        LET source == SourceOf(LastLexed)
            toks == TokensOf(LastLexed)
            layout == Layout(source, toks, 1, 1, TRUE)
        IN  /\ Len(source) >= 0 /\ Len(toks) >= 1
            /\ layout.ok
            /\ \A k \in 1..Len(layout.starts) :
                  LET start == layout.starts[k]
                  IN  /\ source[start] = "$" =>
                            /\ toks[k].type = "IDENTIFIER"
                            /\ toks[k].value
                                  = SubSeq(source, start, start + DigitRun(source, start))
                      /\ toks[k].type # "STRING" =>
                            \A c \in 2..Len(toks[k].value) : toks[k].value[c] # "$"

\* the line `$7 $ $12a` was lexed: $7, $, $12 and a
C15_AddressesLexed ==
    /\ testcase.family = "sources"
    /\ testcase.entry = <<"Addresses">>
    /\ Len(tokens) = 5
    /\ tokens[1].value = <<"$", "7">>
    /\ tokens[2].value = <<"$">>
    /\ tokens[3].value = <<"$", "1", "2">>

\* the lines of one top-level node as the generator is to emit them: for a
\* function the label, one line per instruction child (four spaces and the
\* instruction, but HLT and RET bare) and one empty line
WellFormedLines(node, lines) ==
    node.type = "FUNCTION" =>
        /\ Len(lines) = Len(node.children) + 2
        /\ lines[1] = <<"L", "B", "L", " ">> \o node.value.string
        /\ lines[Len(lines)] = <<>>
        /\ \A k \in 1..Len(node.children) :
              LET line == lines[k + 1]
              IN  CASE node.children[k].type = "HLT" -> line = <<"H", "L", "T">>
                    [] node.children[k].type = "RET" -> line = <<"R", "E", "T">>
                    [] OTHER -> /\ Len(line) > 4
                                /\ SubSeq(line, 1, 4) = <<" ", " ", " ", " ">>
                                /\ line[5] \notin Whitespace
                                /\ \A c \in 1..Len(line) : line[c] # "\n"

\* generator.generate was called on the program
GenerateCalled == masm_code.present \/ error.type = "KeyError"

\* C16: for every Function node the generator emits the unindented line
\* `LBL <name>`, then exactly one line per instruction child in child order,
\* then exactly one empty line; every instruction line starts with the
\* four-space indent except those of Halt and Return, which are the bare HLT
\* and RET; the final text is these lines joined by newline.
C16_FunctionLines ==
    GenerateCalled =>
        /\ masm_code.present
        /\ \A f \in 1..Len(program.children) :
              WellFormedLines(program.children[f],
                              generate_function(program.children[f]).output)
        /\ masm_code.text
              = JoinLines(Flatten([f \in 1..Len(program.children) |->
                    IF program.children[f].type = "FUNCTION"
                    THEN generate_function(program.children[f]).output
                    ELSE <<KwInclude \o <<" ">> \o program.children[f].value.path>>]))

\* the number of the line position pos of a source is on
LineAt(source, pos) == 1 + Cardinality({n \in 1..(pos - 1) : source[n] = "\n"})

\* the characters some lexer rule starts with or goes on with
RuleChars == Letters \cup Digits \cup SimpleChars \cup {"_", "#", "$"}

\* the position of the quote that closes a string whose body starts at pos: a
\* backslash hides the character after it; 0 when the input ends first
RECURSIVE ClosingQuote(_, _)
ClosingQuote(source, pos) ==
    IF pos > Len(source) THEN 0
    ELSE IF source[pos] = "\"" THEN pos
    ELSE IF source[pos] = "\\" THEN ClosingQuote(source, pos + 2)
    ELSE ClosingQuote(source, pos + 1)

\* the first place from pos on where a source breaks the lexical rules:
\* [kind, pos, multiline], kind being "none", "unterminated" (pos: the opening
\* quote) or "unexpected" (pos: the character); multiline tells whether a
\* string literal before that place holds a newline
RECURSIVE FirstFailure(_, _, _)
FirstFailure(source, pos, multiline) ==
    IF pos > Len(source) THEN [kind |-> "none", pos |-> pos, multiline |-> multiline]
    ELSE IF source[pos] \in Whitespace \cup RuleChars
    THEN FirstFailure(source,
                      CHOOSE n \in (pos + 1)..(Len(source) + 1) :
                          /\ \A m \in pos..(n - 1) : source[m] \in Whitespace \cup RuleChars
                          /\ n <= Len(source) => source[n] \notin Whitespace \cup RuleChars,
                      multiline)
    ELSE IF source[pos] = "/" /\ pos + 1 <= Len(source) /\ source[pos + 1] = "/"
    THEN FirstFailure(source,
                      IF \E n \in pos..Len(source) : source[n] = "\n"
                      THEN CHOOSE n \in pos..Len(source) :
                              source[n] = "\n" /\ \A m \in pos..(n - 1) : source[m] # "\n"
                      ELSE Len(source) + 1,
                      multiline)
    ELSE IF source[pos] = "\""
    THEN LET close == ClosingQuote(source, pos + 1)
         IN  IF close = 0
             THEN [kind |-> "unterminated", pos |-> pos, multiline |-> multiline]
             ELSE FirstFailure(source, close + 1,
                               multiline \/ \E n \in pos..close : source[n] = "\n")
    ELSE [kind |-> "unexpected", pos |-> pos, multiline |-> multiline]

\* the lexer fails on a source exactly when the source breaks the rules, and
\* then with the error of the first such place
FailsExactlyThere(path) ==
    LET source == SourceOf(path)
        got == Tokenize(source, path)
        failure == FirstFailure(source, 1, FALSE)
    IN  /\ Len(source) >= 0 /\ got.error.type \in {"None", "SyntaxError"}
        /\ CASE failure.kind = "none" ->
                  got.error = NoError /\ got.tokens # <<>>
             [] failure.kind = "unterminated" ->
                  /\ got.tokens = <<>>
                  /\ got.error.type = "SyntaxError"
                  /\ got.error.message = "Unterminated string"
             [] failure.kind = "unexpected" ->
                  /\ got.tokens = <<>>
                  /\ got.error.type = "SyntaxError"
                  /\ got.error.message = "Unexpected character"
                  /\ got.error.text = <<source[failure.pos]>>
        /\ failure.kind # "none" =>
              /\ got.error.line \in 1..LineAt(source, failure.pos)
              /\ ~failure.multiline => got.error.line = LineAt(source, failure.pos)

\* C17: Lexer.tokenize fails, returning no tokens, exactly in two cases: a
\* string literal whose closing quote is not found before the end of input
\* (a backslash hides the character after it), with a message naming the
\* line; a character at a scan position that matches no rule, with a message
\* naming the character and the line.  (Which line the counter holds after a
\* string literal that spans lines is the matter of C19.)
C17_LexicalErrors ==
    /\ \A p \in loaded_files : FailsExactlyThere(p)
    /\ (pc = "raised" /\ lexed = <<>>) =>
          /\ error = Tokenize(SourceOf(MainFile), MainFile).error
          /\ tokens = <<>>

\* the compilation of the line `"a\"` failed: the string does not end
C17_EscapedQuoteDoesNotClose ==
    /\ testcase.family = "sources"
    /\ testcase.entry = <<"EscapedEnd">>
    /\ pc = "returned" /\ result = "False"
    /\ error.message = "Unterminated string"
    /\ error.line = 1

(***************************************************************************)
(* Properties of the parser's loops                                        *)
(***************************************************************************)

\* the node types of a sequence of nodes
Types(nodes) == [k \in 1..Len(nodes) |-> nodes[k].type]

\* the parser is done with the one function of the entry file and returned
\* the program with that function, its children being of the types given
FunctionParsedAs(types) ==
    /\ error.type # "SyntaxError"
    /\ Len(program.children) = 1
    /\ program.children[1].type = "FUNCTION"
    /\ program.children[1].value = StrValue(LxMainName)
    /\ Types(program.children[1].children) = types
    /\ tokens[current].type = "EOF"

\* the parser has run on the merged stream: it returned or raised
ParserDone == tokens # <<>> /\ pc \in {"generate", "write", "raised", "returned"}

\* C18: for every function body made only of valid statements and semicolons,
\* with zero or more semicolons before the first statement, between statements
\* and after the last one, parse_function succeeds, consumes the closing brace
\* and returns a Function node whose children are the statements in source
\* order; a body of semicolons only yields a Function without children.
C18_SemicolonsSeparate ==
    /\ (ParserDone /\ testcase.family = "scenario" /\ testcase.entry = <<"Semicolons">>)
          => FunctionParsedAs(<<"INC", "HLT", "RET">>)
    /\ (ParserDone /\ testcase.family = "scenario" /\ testcase.entry = <<"OnlySemicolons">>)
          => FunctionParsedAs(<<>>)
    /\ (ParserDone /\ testcase.family = "statements"
          /\ \A k \in 1..Len(testcase.stmts) : ValidStmt(testcase.stmts[k]))
          => FunctionParsedAs([k \in 1..Len(testcase.stmts) |->
                                  InstructionNodeType(testcase.stmts[k].name)])

\* C19: every token the lexer emits carries the 1-based number of the line of
\* its file on which the token starts, 1 plus the number of newlines before
\* the token's first character, also after a comment and after a string
\* literal that holds newlines.
C19_TokenLines ==
    lexed # <<>> =>
        LET source == SourceOf(LastLexed)
            toks == TokensOf(LastLexed)
            layout == Layout(source, toks, 1, 1, TRUE)
        IN  /\ Len(source) >= 0 /\ Len(toks) >= 1
            /\ layout.ok
            /\ \A k \in 1..Len(layout.starts) :
                  toks[k].line = LineAt(source, layout.starts[k])

(***************************************************************************)
(* Properties of the top-level loop                                        *)
(***************************************************************************)

\* the warnings the top-level loop gave
SkipWarnings == SelectSeq(warnings, LAMBDA w : w.kind = "unexpected token")

\* one iteration of the top-level loop on a token that is neither a directive
\* nor the function keyword: at the end-of-stream token parse returns the
\* Program as it is; any other token is skipped alone, with a warning about
\* it, and the loop goes on
TopLevelStep ==
    (pc = "parse" /\ tokens[current].type \notin {"INCLUDE", "FUNCTION"}) =>
        /\ program' = program
        /\ error' = error
        /\ IF tokens[current].type = "EOF"
           THEN pc' = "generate" /\ current' = current /\ warnings' = warnings
           ELSE /\ pc' = "parse"
                /\ current' = current + 1
                /\ warnings' = Append(warnings, Warning("unexpected token", tokens[current]))

\* the Program parse returned: its children are the #M_include nodes and the
\* functions of the stream in their order, and the cursor is at the
\* end-of-stream token
TopLevelChildren ==
    (pc \in {"generate", "write", "returned"} /\ tokens # <<>> /\ error.type # "SyntaxError") =>
        /\ tokens[current].type = "EOF"
        /\ Len(program.children) = Cardinality(DeclarationPositions(tokens))
        /\ \A j \in 1..Len(program.children) :
              LET k == Declaration(tokens, j)
              IN  IF IsMacroInclude(tokens[k])
                  THEN program.children[j]
                          = Node("INCLUDE", [directive |-> KwMInclude,
                                             path |-> tokens[k + 1].value])
                  ELSE /\ program.children[j].type = "FUNCTION"
                       /\ program.children[j].value = StrValue(tokens[k + 1].value)

\* C20: at top level the parser skips, one token at a time and with a
\* non-fatal diagnostic, every token that is neither an include directive nor
\* the function keyword, and goes on: the children of the Program are the
\* #M_include nodes and the functions of the stream in their order, whatever
\* tokens lie between them, and the loop stops at the end-of-stream token.
C20_TopLevelRecovery ==
    /\ [][TopLevelStep]_vars
    /\ []TopLevelChildren

\* `void f(){} 7 #M_include "x" , void g(){} ;` was compiled: 7, the comma and
\* the semicolon were skipped with a warning each, and the Program holds f,
\* the include node and g
C20_JunkSkipped ==
    /\ pc = "returned" /\ result = "True"
    /\ testcase.family = "scenario" /\ testcase.entry = <<"FunJunkFun">>
    /\ Types(program.children) = <<"FUNCTION", "INCLUDE", "FUNCTION">>
    /\ [k \in 1..Len(SkipWarnings) |-> SkipWarnings[k].token.type]
          = <<"NUMBER", "COMMA", "SEMICOLON">>

(***************************************************************************)
(* Properties of the parser's errors                                       *)
(***************************************************************************)

\* the 27 names parse_function dispatches on
KnownInstructionNames ==
    BinaryNames \cup UnaryNames \cup ConditionalJumpNames \cup OutNames
        \cup NoOperandNames \cup {Nm_db, Nm_call, Nm_jmp}

\* the loop of parse_function stands, after the semicolons, at an identifier
\* that is no instruction name
AtUnknownIdentifier ==
    /\ pc = "parse_function"
    /\ ~Check(tokens, current, "RIGHT_BRACE")
    /\ ~IsAtEnd(tokens, current)
    /\ Check(tokens, SkipSemicolons(tokens, current), "IDENTIFIER")
    /\ Peek(tokens, SkipSemicolons(tokens, current)).value \notin KnownInstructionNames

\* where the k-th token of the merged stream starts in its file, the stream
\* being that of a file without include directives
StartOf(k) == Layout(SourceOf(tokens[k].source_file), tokens, 1, 1, TRUE).starts[k]

\* the step at an unknown identifier raises the syntax error that names the
\* identifier, the line it stands on and its file, and neither the Function
\* node nor the Program goes anywhere
UnknownIdentifierIsFatal ==
    AtUnknownIdentifier =>
        LET at == SkipSemicolons(tokens, current)
            source == SourceOf(tokens[at].source_file)
        IN  /\ Len(source) >= 0 /\ Len(tokens) >= 1
            /\ pc' = "raised"
            /\ error' = SyntaxError("Unexpected identifier", tokens[at].value,
                                    LineAt(source, StartOf(at)), tokens[at].source_file)
            /\ program' = program
            /\ masm_code' = masm_code /\ ~masm_code.present

\* C21: inside a function body a statement led by an identifier that is none
\* of the 27 instruction names aborts parsing with a fatal syntax error naming
\* the identifier, its line and its source file; no Function node and no
\* Program is returned.
C21_UnknownInstructionIsFatal ==
    /\ [][testcase.family \in {"statements", "sources"} => UnknownIdentifierIsFatal]_vars
    /\ []((error.type = "SyntaxError" /\ error.message = "Unexpected identifier")
             => (pc \in {"raised", "returned"} /\ result # "True" /\ ~masm_code.present))

\* a step that raises a syntax error: the message names a line, and the file
\* is named too, by the message or, for an error raised under process_file,
\* by the handler of process_file, which prints the path of the file it was
\* processing
ErrorNamesLineAndFile ==
    (error' # error /\ error'.type = "SyntaxError") =>
        /\ error'.line >= 1
        /\ \/ error'.source_file # NoFile
           \/ pc \in {"start", "process_file"}

\* C22: every fatal error the lexer or the parser raises (unterminated string,
\* unrecognized character, missing parenthesis, brace, comma, function name or
\* operand, unknown instruction) reports both the line number and the source
\* file of the offending position.
C22_ErrorsNameLineAndFile == [][ErrorNamesLineAndFile]_vars

(***************************************************************************)
(* Properties of a second call of process_includes                         *)
(***************************************************************************)

\* process_includes was called a second time on the same FileLoader and
\* returned or raised
SecondCallDone ==
    /\ first.done
    /\ testcase.family = "again"
    /\ pc \notin {"start", "process_file"}

\* C23: the visited-file set is emptied at the start of every process_includes
\* call, so the set of one call never affects the next: a second call on the
\* same FileLoader with the same entry file and unchanged files returns the
\* token sequence the first call returned, and a file inlined in the first
\* call is inlined again in the second.
C23_VisitedSetIsPerCall ==
    /\ (testcase.family = "again" /\ pc = "process_file") =>
          loaded_files \subseteq {lexed[k] : k \in 1..Len(lexed)}
    /\ SecondCallDone =>
          /\ tokens = first.tokens
          /\ lexed = first.lexed
          /\ calls = first.calls

\* the second call returned a stream that holds, as the first did, the tokens
\* of two included files
C23_InlinedAgain ==
    /\ SecondCallDone
    /\ pc = "returned" /\ result = "True"
    /\ Len(first.lexed) = 3
    /\ lexed = first.lexed
    /\ Len(tokens) > 1

(***************************************************************************)
(* Properties of resolve_include_path                                      *)
(***************************************************************************)

\* process_file stands at an include directive followed by its path string:
\* resolve_include_path is called next
AtIncludeWithPath ==
    /\ pc = "process_file"
    /\ AtToken
    /\ Top.tokens[Top.i].type = "INCLUDE"
    /\ HasPath

\* the places one name is looked for at: beside the current file, then in the
\* directory of the entry file, the directory of the executable and its
\* include directory
Round(name, current_file) ==
    <<Path(current_file.dir, name), Path(BaseDir, name), Path(ExecDir, name),
      Path(ExecIncludeDir, name)>>

\* all the places, the second round being for the name with the extension
Tried(name, current_file) ==
    Round(name, current_file)
        \o (IF EndsWith(Lower(name), WakeExt) THEN <<>>
            ELSE Round(name \o WakeExt, current_file))

\* C24: resolve_include_path(name, current_file) returns the first existing
\* candidate in this order: name beside current_file; name in every search
\* path in list order; then, only when none exists and name does not end in
\* .wake, the same once more for name with .wake appended; it fails with a
\* not-found error when no candidate exists, and retries at most once.
C24_ResolutionOrder ==
    /\ AtIncludeWithPath =>
          LET name == StripQuotes(Top.tokens[Top.i + 1].value)
              tried == Tried(name, Top.abs_path)
              existing == {k \in 1..Len(tried) : tried[k] \in DOMAIN files}
              got == ResolveIncludePath(files, name, Top.abs_path)
          IN  IF existing = {}
              THEN got.error.type = "FileNotFoundError" /\ got.path = NoFile
              ELSE /\ got.error = NoError
                   /\ got.path = tried[CHOOSE k \in existing : \A j \in existing : k <= j]
    /\ \A k \in 1..Len(calls) : calls[k] \in DOMAIN files

\* a compilation resolved "c" to c.wake in the include directory of the
\* executable and, from there, "b.wake" to b.wake beside the entry file, and
\* did not find "m.wake" although m.wake.wake exists
C24_ResolvedInOrder ==
    /\ pc = "returned"
    /\ testcase.family = "includes" /\ testcase.world = "extension"
    /\ FileMWW \in DOMAIN files
    /\ calls = <<FileC, FileB>>
    /\ Len(IncludeWarnings) = 1

(***************************************************************************)
(* Properties of files included more than once                             *)
(***************************************************************************)

\* a sequence without the elements that stood in it before
RECURSIVE FirstOccurrences(_)
FirstOccurrences(seq) ==
    IF seq = <<>> THEN <<>>
    ELSE LET front == FirstOccurrences(SubSeq(seq, 1, Len(seq) - 1))
             last == seq[Len(seq)]
         IN  IF \E k \in 1..Len(front) : front[k] = last THEN front
             ELSE Append(front, last)

\* the step at an #include directive that resolves to a file visited before:
\* no file is tokenized, the activation goes on behind the directive and its
\* path with the tokens it had collected, and there is no warning and no error
LaterIncludeIsSilent ==
    (/\ AtIncludeWithPath
     /\ Top.tokens[Top.i].value = KwInclude
     /\ LET got == ResolveIncludePath(files, StripQuotes(Top.tokens[Top.i + 1].value),
                                      Top.abs_path)
        IN  got.error = NoError /\ got.path \in loaded_files)
    => /\ stack' = [stack EXCEPT ![Len(stack)].i = @ + 2]
       /\ lexed' = lexed
       /\ loaded_files' = loaded_files
       /\ warnings' = warnings
       /\ error' = error
       /\ pc' = pc

\* the files are tokenized in the order the directives that resolve to them
\* are reached, each at the first such directive only, and the merged stream
\* holds the tokens of each tokenized file once
TokenizedAtFirstInclude ==
    /\ (pc = "process_file" \/ tokens # <<>>) =>
          lexed = FirstOccurrences(<<MainFile>> \o calls)
    /\ tokens # <<>> =>
          \A p \in DOMAIN files \ {MainFile} :
              FromFile(tokens, p)
                 = IF Count(lexed, p) > 0 THEN OwnTokens(files, p) ELSE <<>>

\* C25: within one process_includes call every file is lexed and spliced at
\* most once: when several #include directives, in one file or in several (as
\* in a diamond a -> b, a -> c, b -> m, c -> m), resolve to the same file,
\* only the first one reached in depth-first source order contributes the
\* file's tokens; every later one contributes no token, without warning or
\* error.
C25_IncludedOnce ==
    /\ [][LaterIncludeIsSilent]_vars
    /\ []TokenizedAtFirstInclude

\* the diamond was compiled: m.wake was reached from b.wake and from c.wake,
\* tokenized once, and its function stands once in the Program, before those
\* of b.wake and c.wake
C25_DiamondCompiled ==
    /\ pc = "returned" /\ result = "True"
    /\ testcase.world = "diamond"
    /\ calls = <<FileB, FileM, FileC, FileM>>
    /\ lexed = <<MainFile, FileB, FileM, FileC>>
    /\ warnings = <<>>
    /\ Types(program.children) = <<"FUNCTION", "FUNCTION", "FUNCTION">>

(***************************************************************************)
(* Properties of directives the parser meets                               *)
(***************************************************************************)

\* the lines of the generated text that begin with #include
IncludeLines(lines) == SelectSeq(lines, LAMBDA l : StartsWith(l, 1, KwInclude))

\* the top-level loop stands at an #include directive followed by its path,
\* which process_includes passed on: the pair is consumed, the Program stays
\* as it is, and the loop goes on
IncludePairConsumed ==
    (pc = "parse" /\ current \in PairsOf(tokens, KwInclude)) =>
        /\ current' = current + 2
        /\ program' = program
        /\ pc' = "parse"
        /\ error' = error
        /\ warnings' = warnings

\* every #include line of the generated text is that of an #M_include
\* directive of the stream, there are no more of them than such directives,
\* and the path of an #include directive is in no line unless an #M_include
\* directive names it too
OnlyMacroIncludeLines ==
    masm_code.present =>
        LET lines == IncludeLines(generate(program).output)
        IN  /\ Len(lines) <= Cardinality(PairsOf(tokens, KwMInclude))
            /\ \A n \in 1..Len(lines) :
                  \E k \in PairsOf(tokens, KwMInclude) :
                      lines[n] = KwInclude \o <<" ">> \o tokens[k + 1].value
            /\ \A k \in PairsOf(tokens, KwInclude) :
                  (\A m \in PairsOf(tokens, KwMInclude) : tokens[m + 1].value # tokens[k + 1].value)
                  => \A n \in 1..Len(generate(program).output) :
                        generate(program).output[n]
                           # KwInclude \o <<" ">> \o tokens[k + 1].value

\* C26: an unresolved #include "p" pair passed through to the parser at top
\* level is consumed without creating an AST node, so the generated text has
\* no line that refers to p; only #M_include directives produce an include
\* line in the output.
C26_UnresolvedIncludeLeavesNoLine ==
    /\ [][IncludePairConsumed]_vars
    /\ []OnlyMacroIncludeLines

\* a compilation whose stream held an unresolved #include pair and an
\* #M_include pair wrote a text with one #include line, that of the
\* #M_include directive
C26_OneIncludeLine ==
    /\ pc = "returned" /\ result = "True"
    /\ PairsOf(tokens, KwInclude) # {}
    /\ PairsOf(tokens, KwMInclude) # {}
    /\ Len(IncludeLines(generate(program).output)) = 1
    /\ output_file.present

(***************************************************************************)
(* Termination of the parser                                               *)
(***************************************************************************)

\* the loops of the parser: pc is in one of them
InParser == pc \in {"parse", "parse_function"}

\* a step of the parser: the cursor does not go back and does not pass the
\* end-of-stream token, and the step moves the cursor forward unless it leaves
\* the parser by returning the Program or raising
ParserStepAdvances ==
    InParser =>
        /\ current' >= current
        /\ current' <= Len(tokens)
        /\ \/ current' > current /\ InParser'
           \/ pc' = "generate" /\ tokens[current].type = "EOF"
           \/ pc' = "raised" /\ error'.type = "SyntaxError"

\* the stream the parser runs on ends with its one end-of-stream token, and
\* the cursor is in it
CursorInStream ==
    tokens # <<>> =>
        /\ tokens[Len(tokens)].type = "EOF"
        /\ \A k \in 1..(Len(tokens) - 1) : tokens[k].type # "EOF"
        /\ 1 <= current /\ current <= Len(tokens)

\* C27: on every finite token stream that ends with an end-of-stream token
\* Parser.parse terminates, returning a Program or raising a syntax error: the
\* cursor never decreases, never moves past the index of the end-of-stream
\* token, and every iteration of the top-level loop and of the function-body
\* loop either advances the cursor by at least one token or leaves the loop.
C27_ParserTerminates ==
    /\ [][ParserStepAdvances]_vars
    /\ []CursorInStream

\* the parser ran to the end-of-stream token inside a function body that is
\* not closed, and raised there
C27_RaisedAtEndOfStream ==
    /\ pc = "raised"
    /\ testcase.family = "scenario" /\ testcase.entry = <<"Unclosed">>
    /\ current = Len(tokens)
    /\ Types(function_node.children) = <<"INC">>
    /\ error.message = "Expected '}' after function body"

(***************************************************************************)
(* Properties of the function keyword                                      *)
(***************************************************************************)

\* C28: whenever the text at a scan position begins with the four characters
\* void, the lexer emits a function-keyword token and consumes exactly those
\* four characters, whatever character follows: voidx and void_1 are lexed as
\* a function-keyword token followed by an identifier token for the rest,
\* never as one identifier token.
C28_VoidIsAlwaysKeyword ==
    lexed # <<>> =>
        LET source == SourceOf(LastLexed)
            toks == TokensOf(LastLexed)
            layout == Layout(source, toks, 1, 1, TRUE)
        IN  /\ Len(source) >= 0 /\ Len(toks) >= 1
            /\ layout.ok
            /\ \A k \in 1..Len(layout.starts) :
                  LET start == layout.starts[k]
                  IN  IF StartsWith(source, start, KwVoid)
                      THEN /\ toks[k].type = "FUNCTION"
                           /\ toks[k].value = KwVoid
                           /\ (start + 4 <= Len(source) /\ source[start + 4] \in IdentStart) =>
                                 /\ k + 1 <= Len(layout.starts)
                                 /\ layout.starts[k + 1] = start + 4
                                 /\ toks[k + 1].type = "IDENTIFIER"
                                 /\ toks[k + 1].value
                                       = SubSeq(source, start + 4,
                                                ScanWhile(source, start + 4, IdentPart) - 1)
                      ELSE toks[k].type # "FUNCTION"

\* the line `avoid void_1 voids` was lexed: avoid, the keyword, _1, the
\* keyword and s
C28_GluedKeywordLexed ==
    /\ testcase.family = "sources"
    /\ testcase.entry = <<"Voids">>
    /\ MainFile \in LexedFiles
    /\ [k \in 1..Len(tokens) |-> tokens[k].type]
          = <<"IDENTIFIER", "FUNCTION", "IDENTIFIER", "FUNCTION", "IDENTIFIER", "EOF">>
    /\ tokens[3].value = <<"_", "1">>

(***************************************************************************)
(* Properties of tokens inside a function body                             *)
(***************************************************************************)

\* the loop of parse_function stands, after the semicolons, at a token that is
\* neither an identifier nor the closing brace nor the end of the stream
AtStrayBodyToken ==
    /\ pc = "parse_function"
    /\ ~Check(tokens, current, "RIGHT_BRACE")
    /\ ~IsAtEnd(tokens, current)
    /\ Peek(tokens, SkipSemicolons(tokens, current)).type
          \notin {"IDENTIFIER", "SEMICOLON", "RIGHT_BRACE", "EOF"}

\* the step at such a token: the token is passed, nothing is raised, nothing
\* is printed, and the Function node gets no child
StrayBodyTokenSkipped ==
    AtStrayBodyToken =>
        /\ current' > SkipSemicolons(tokens, current)
        /\ pc' = "parse_function"
        /\ error' = error
        /\ warnings' = warnings
        /\ function_node' = function_node
        /\ program' = program

\* the generated text has one #include line for each #M_include pair at top
\* level, and none for those inside function bodies
NoLineFromBodies ==
    masm_code.present =>
        Len(IncludeLines(generate(program).output))
           = Cardinality(PairsOf(tokens, KwMInclude) \ BodyPositions(tokens, 1))

\* C29: inside a function body a token that is not an identifier, a semicolon
\* or the closing brace (a number, string, parenthesis, comma, opening brace,
\* the function keyword or an include directive) is skipped without error,
\* diagnostic or AST node; so an #M_include "p" pair inside a function body
\* generates no output line.
C29_StrayBodyTokensSkipped ==
    /\ [][StrayBodyTokenSkipped]_vars
    /\ []NoLineFromBodies

\* `void f(){7 "s" ( , { void #M_include "x" hlt()}` was compiled: the Program
\* holds f with the one statement hlt, the parser printed nothing, and the
\* text has no #include line
C29_BodyJunkCompiled ==
    /\ pc = "returned" /\ result = "True"
    /\ testcase.family = "scenario" /\ testcase.entry = <<"BodyJunk">>
    /\ PairsOf(tokens, KwMInclude) \cap BodyPositions(tokens, 1) # {}
    /\ Types(program.children) = <<"FUNCTION">>
    /\ Types(program.children[1].children) = <<"HLT">>
    /\ SkipWarnings = <<>>
    /\ IncludeLines(generate(program).output) = <<>>

(***************************************************************************)
(* Properties of call and jump targets                                     *)
(***************************************************************************)

\* a lexeme without quotes
Bare(text) == SelectSeq(text, LAMBDA c : c # Quote)

\* the text of a function main whose first statement is the one written was
\* generated
FirstStatementGenerated ==
    /\ testcase.family = "statements"
    /\ testcase.stmts # <<>>
    /\ masm_code.present

\* C30: for call("f") the Call node stores the lexeme of the string token
\* with its quotes, so the generated line is `CALL #"f"`; for jmp("f") and for
\* both targets of je, jne, jl and jg the quotes are stripped before the
\* target is stored, giving `JMP #f`.
C30_CallKeepsQuotes ==
    FirstStatementGenerated =>
        LET s == testcase.stmts[1]
            node == program.children[1].children[1]
            line == generate(program).output[2]
            four == <<" ", " ", " ", " ">>
        IN  /\ s.name = Nm_call =>
                  /\ s.args[1].text[1] = Quote
                  /\ node = Node("CALL", StrValue(s.args[1].text))
                  /\ line = four \o <<"C", "A", "L", "L", " ", "#">> \o s.args[1].text
            /\ s.name = Nm_jmp =>
                  /\ node = Node("JMP", StrValue(Bare(s.args[1].text)))
                  /\ line = four \o <<"J", "M", "P", " ", "#">> \o Bare(s.args[1].text)
            /\ s.name \in ConditionalJumpNames =>
                  /\ node.type = InstructionNodeType(s.name)
                  /\ node.value = [true |-> Bare(s.args[1].text),
                                   false |-> Bare(s.args[2].text)]
                  /\ line = four \o Upper(s.name) \o <<" ", "#">> \o Bare(s.args[1].text)
                               \o <<" ", "#">> \o Bare(s.args[2].text)

\* `void main(){call("f");}` was compiled to the line `    CALL #"f"`
C30_QuotedCallWritten ==
    /\ pc = "returned" /\ result = "True"
    /\ testcase.family = "statements"
    /\ Len(testcase.stmts) = 1
    /\ testcase.stmts[1].name = Nm_call
    /\ output_file.present
    /\ generate(program).output[2]
          = <<" ", " ", " ", " ", "C", "A", "L", "L", " ", "#", "\"", "f", "\"">>

====
